---- MODULE Spec2Model ----
(***************************************************************************)
(* Model of the rb_tree crate: the red-black tree engine of src/node.rs    *)
(* and the RBTree container of src/rbtree.rs.                               *)
(*                                                                         *)
(* A Node is a record: Leaf(c) or Internal(value, colour, l_child,         *)
(* r_child).  The Rust methods mutate `self` in place and return a result; *)
(* here each method is an operator from the node before the call to a      *)
(* record holding the node after the call and the returned result.  A      *)
(* panic!() is modelled by the distinguished node PanicNode, which every   *)
(* operator propagates to the top-level call.                               *)
(***************************************************************************)
EXTENDS Integers, Sequences, FiniteSets, TLC

\* keys are 0 .. MaxKey-1
MaxKey == 4

Keys == 0 .. (MaxKey - 1)

\* payloads stored with a key run over 0 .. MaxPayload
MaxPayload == 1

Payloads == 0 .. MaxPayload

VARIABLES root, contained, in_q, panicked, op, returned, cmp,
          other, set_iter, collected, fixups, matched, inserting

vars == <<root, contained, in_q, panicked, op, returned, cmp,
          other, set_iter, collected, fixups, matched, inserting>>

----------------------------------------------------------------------------
\* enum Colour
Red == "Red"
Black == "Black"
DBlack == "DBlack"

\* enum Node
Leaf(c) == [kind |-> "Leaf", colour |-> c]

Internal(v, c, l, r) ==
    [kind |-> "Internal", value |-> v, colour |-> c, l_child |-> l, r_child |-> r]

\* the state of a node once a panic!() has unwound through it
PanicNode == [kind |-> "Panic", colour |-> "None"]

IsPanic(n) == n.kind = "Panic"

\* Node::new: all newly inserted values are red
NodeNew(val) == Internal(val, Red, Leaf(Black), Leaf(Black))

\* every key is below KeyLimit
KeyLimit == 1000

\* The element type T. An element is a natural number e that stands for the
\* Mapper { key: e % KeyLimit, val: e \div KeyLimit } of src/mapper.rs; the
\* elements below KeyLimit are the plain keys (payload 0).
Mapper(key, val) == val * KeyLimit + key

MapperKey(e) == e % KeyLimit

MapperVal(e) == e \div KeyLimit

\* Mapper::consume: the (key, value) pair
consume(e) == <<MapperKey(e), MapperVal(e)>>

\* std::cmp::Ordering of two integers
IntCmp(a, b) == IF a < b THEN "Less" ELSE IF a = b THEN "Equal" ELSE "Greater"

\* PartialOrd of Mapper: on the key only
MapperCmp(l, r) == IntCmp(MapperKey(l), MapperKey(r))

\* the closure |l, r| l.partial_cmp(r).unwrap() over integers
NaturalCmp(l, r) == IntCmp(l, r)

\* `as i8` of an i64: the low eight bits, two's complement
as_i8(c) == ((c + 128) % 256) - 128

\* rbqueue_c_new!: the Ordering made of the integer a C-style comparator
\* returns
rbqueue_c_new(c) ==
    IF as_i8(c) \in -128 .. -1 THEN "Less"
    ELSE IF as_i8(c) = 0 THEN "Equal"
    ELSE "Greater"

\* the closure with its operands the other way round: l - r
ReverseCCmp_operands_swapped(l, r) == rbqueue_c_new(l - r)

\* the queue of rbqueue_c_new!(|l: &i64, r| (r - l))
ReverseCCmp(l, r) == rbqueue_c_new(r - l)

\* The comparison the tree engine makes between two elements: the element
\* type's own ordering for RBTree / RBMap, the ordering function held by
\* the queue for RBQueue.
ElemCmp(l, r) ==
    CASE cmp = "PartialOrd" -> MapperCmp(l, r)
      [] cmp = "partial_cmp" -> NaturalCmp(l, r)
      [] cmp = "r - l" -> ReverseCCmp(l, r)

\* PartialEq that looks at the value as well as the key
ElemEq_whole_element(a, b) == a = b

ElemEq(a, b) == ElemCmp(a, b) = "Equal"

ElemLt(a, b) == ElemCmp(a, b) = "Less"

ElemGt(a, b) == ElemCmp(a, b) = "Greater"

----------------------------------------------------------------------------
\* colour helpers of Node

is_black(n) == n.colour = Black

is_red(n) == ~is_black(n)

is_double_black(n) == n.colour = DBlack

is_leaf(n) == n.kind = "Leaf"

InnardsSwapColour(c) ==
    CASE c = Red -> Black
      [] c = Black -> Red
      [] c = DBlack -> Black

swap_colour(n) ==
    IF n.kind = "Internal" THEN [n EXCEPT !.colour = InnardsSwapColour(n.colour)]
    ELSE n

black(n) == IF IsPanic(n) THEN n ELSE [n EXCEPT !.colour = Black]

red(n) == IF IsPanic(n) THEN n ELSE [n EXCEPT !.colour = Red]

double_black(n) == IF IsPanic(n) THEN n ELSE [n EXCEPT !.colour = DBlack]

get_left(n) == IF n.kind = "Internal" THEN n.l_child ELSE n

get_right(n) == IF n.kind = "Internal" THEN n.r_child ELSE n

\* child(right): panics on a Leaf
child(n, right) ==
    IF n.kind = "Internal" THEN (IF right THEN n.r_child ELSE n.l_child)
    ELSE PanicNode

\* a write through `self.child(right)`: n with that child replaced by c
with_child(n, right, c) ==
    IF n.kind # "Internal" \/ IsPanic(c) THEN PanicNode
    ELSE IF right THEN [n EXCEPT !.r_child = c]
    ELSE [n EXCEPT !.l_child = c]

\* self.child(right).black()
child_black(n, right) == with_child(n, right, black(child(n, right)))

\* a recolouring that leaves the child as it is
child_red_no_op(n, right) == n

\* self.child(right).red()
child_red(n, right) == with_child(n, right, red(child(n, right)))

\* self.child(right).swap_colour()
child_swap_colour(n, right) == with_child(n, right, swap_colour(child(n, right)))

\* F applied to the value of e, e being evaluated once:
\* LET x == e IN F(x)
Bind(e, F(_)) == CHOOSE y \in {F(x) : x \in {e}} : TRUE

----------------------------------------------------------------------------
\* rotations

\* a single rotation where the double one is due: the child on side `right`
\* becomes the local root
inner_switcheroo_single(self, right) ==
    IF self.kind # "Internal" \/ child(self, right).kind # "Internal"
    THEN PanicNode
    ELSE with_child(child(self, right), ~right,
                    with_child(self, right, child(child(self, right), ~right)))

\* The swaps leave G = self.child(right).child(!right) as the local root,
\* with the old child C on side `right` and the old root S on side `!right`;
\* G's old children go to S.child(right) and C.child(!right).
inner_switcheroo(self, right) ==
    LET C == child(self, right)
        G == child(child(self, right), ~right)
    IN  IF self.kind # "Internal" \/ C.kind # "Internal" \/ G.kind # "Internal"
        THEN PanicNode
        ELSE with_child(
                 with_child(G, right, with_child(C, ~right, child(G, right))),
                 ~right,
                 with_child(self, right, child(G, ~right)))

\* outer_switcheroo rotating to the wrong side: the old root is hung on side
\* `right` of the new local root instead of side `!right`
outer_switcheroo_wrong_side(self, right) ==
    LET C == child(self, right)
    IN  IF self.kind # "Internal" \/ C.kind # "Internal"
        THEN PanicNode
        ELSE with_child(C, right, with_child(self, right, child(C, ~right)))

\* The swaps leave C = self.child(right) as the local root with the old
\* root S on side `!right`; C's old child on side `!right` goes to
\* S.child(right).
outer_switcheroo(self, right) ==
    LET C == child(self, right)
    IN  IF self.kind # "Internal" \/ C.kind # "Internal"
        THEN PanicNode
        ELSE with_child(C, ~right, with_child(self, right, child(C, ~right)))

----------------------------------------------------------------------------
\* insertion

\* result of an insertion step: the node after the step and the Insertion
\* variant; val is the displaced value of Replaced(val)
InsRes(n, r, v) == [node |-> n, res |-> r, val |-> v]

\* reorders nodes when required upon insertion
insert_switcheroo(self, right, inner, recolour) ==
    IF recolour THEN
        \* doesn't move anything, simply recolours
        InsRes(child_swap_colour(child_swap_colour(swap_colour(self), FALSE), TRUE),
               "Recoloured", 0)
    ELSE
        \* realigns the new local root, then recolours it and its child
        InsRes(child_swap_colour(
                   swap_colour(IF inner THEN inner_switcheroo(self, right)
                               ELSE outer_switcheroo(self, right)),
                   ~right),
               "Success", 0)

RECURSIVE insert_op(_, _)
\* returns the value if the value was not inserted
insert_op(self, new_v) ==
    IF self.kind = "Internal" THEN
        IF ElemEq(self.value, new_v) THEN
            \* useful if used like a map
            InsRes([self EXCEPT !.value = new_v], "Replaced", self.value)
        ELSE
            LET right == ~ElemGt(self.value, new_v)
            IN  Bind(insert_op(child(self, right), new_v), LAMBDA sub :
                Bind(with_child(self, right, sub.node), LAMBDA s1 :
                    IF IsPanic(s1) THEN InsRes(PanicNode, "Panic", 0)
                    ELSE CASE sub.res = "InvalidLeft" ->
                                insert_switcheroo(s1, right, right,
                                                  is_red(child(self, ~right)))
                           [] sub.res = "InvalidRight" ->
                                insert_switcheroo(s1, right, ~right,
                                                  is_red(child(self, ~right)))
                           [] sub.res = "Recoloured" ->
                                IF is_red(s1) /\ is_red(child(s1, right))
                                THEN InsRes(s1, IF right THEN "InvalidRight"
                                                ELSE "InvalidLeft", 0)
                                ELSE InsRes(s1, "Success", 0)
                           [] sub.res = "Inserted" ->
                                IF is_black(s1) THEN InsRes(s1, "Success", 0)
                                ELSE InsRes(s1, IF right THEN "InvalidRight"
                                                ELSE "InvalidLeft", 0)
                           [] sub.res = "Replaced" -> InsRes(s1, "Replaced", sub.val)
                           [] sub.res = "Success" -> InsRes(s1, "Success", 0)))
    ELSE IF self.kind = "Leaf" THEN InsRes(NodeNew(new_v), "Inserted", 0)
    ELSE InsRes(PanicNode, "Panic", 0)

\* Option<T> returned by the Node and RBTree operations
None == [kind |-> "None", val |-> 0]

Some(v) == [kind |-> "Some", val |-> v]

\* result of a top-level Node call: the root after it and what it returned
NodeRet(n, r) == [node |-> n, ret |-> r]

\* Node::insert that leaves an equal stored element in place and drops the
\* new one
Node_insert_keeps_stored(self, new_v) ==
    Bind(insert_op(self, new_v), LAMBDA r :
        IF IsPanic(r.node) THEN NodeRet(PanicNode, None)
        ELSE IF r.res = "Replaced"
        THEN NodeRet(IF is_red(self) THEN swap_colour(self) ELSE self, Some(new_v))
        ELSE NodeRet(IF is_red(r.node) THEN swap_colour(r.node) ELSE r.node, None))

\* only to be called on the root
Node_insert(self, new_v) ==
    Bind(insert_op(self, new_v), LAMBDA r :
        IF IsPanic(r.node) THEN NodeRet(PanicNode, None)
        ELSE NodeRet(IF is_red(r.node) THEN swap_colour(r.node) ELSE r.node,
                     IF r.res = "Replaced" THEN Some(r.val) ELSE None))

----------------------------------------------------------------------------
\* deletion

\* node after a fixup and whether the double black propagates
FixRes(n, d) == [node |-> n, doubled |-> d]

\* deletion_recolour that leaves the children of the new local root as
\* they are
deletion_recolour_root_only(rotated, self_col, right) ==
    IF self_col = DBlack THEN PanicNode
    ELSE IF self_col = Black THEN black(rotated) ELSE red(rotated)

\* recolouring after either rotation of deletion_switcheroo
\* ("recolour things appropriately")
deletion_recolour(rotated, self_col, right) ==
    IF self_col = DBlack THEN PanicNode  \* "Double black at local root"
    ELSE child_black(
             with_child(
                 child_black(IF self_col = Black THEN black(rotated)
                             ELSE red(rotated), right),
                 ~right,
                 child_black(child(rotated, ~right), ~right)),
             ~right)

RECURSIVE deletion_switcheroo(_)
\* returns true if double black propogates
deletion_switcheroo(self) ==
    IF self.kind # "Internal" THEN FixRes(PanicNode, FALSE)
    ELSE
        LET right == ~is_double_black(get_right(self))
        IN  IF is_black(child(self, right)) THEN
                IF child(self, right).kind # "Internal" THEN FixRes(PanicNode, FALSE)
                ELSE IF is_red(child(child(self, right), ~right)) THEN
                    FixRes(deletion_recolour(inner_switcheroo(self, right),
                                             self.colour, right), FALSE)
                ELSE IF is_red(child(child(self, right), right)) THEN
                    FixRes(deletion_recolour(outer_switcheroo(self, right),
                                             self.colour, right), FALSE)
                ELSE
                    Bind(child_black(child_red(self, right), ~right), LAMBDA s2 :
                        IF is_black(s2) THEN FixRes(double_black(s2), TRUE)
                        ELSE FixRes(black(s2), FALSE))
            ELSE
                Bind(child_red(black(outer_switcheroo(self, right)), ~right), LAMBDA s2 :
                Bind(deletion_switcheroo(child(s2, ~right)), LAMBDA sub :
                Bind(with_child(s2, ~right, sub.node), LAMBDA s3 :
                    IF IsPanic(s3) THEN FixRes(PanicNode, FALSE)
                    ELSE IF sub.doubled THEN deletion_switcheroo(s3)
                    ELSE FixRes(s3, FALSE))))

\* node after an unlink, the value taken out and whether a double black arose
SwapRes(n, v, d) == [node |-> n, val |-> v, doubled |-> d]

RECURSIVE unlink_innermost(_, _)
\* the loop and the unlinking of swap_innermost_descendant: walks from `node`
\* towards side !right until that child is a Leaf, replaces the node found by
\* its child on side `right` and fixes the black depth
unlink_innermost(node, right) ==
    IF ~is_leaf(child(node, ~right)) THEN
        Bind(unlink_innermost(child(node, ~right), right), LAMBDA sub :
            SwapRes(with_child(node, ~right, sub.node), sub.val, sub.doubled))
    ELSE IF is_black(node) THEN
        IF is_red(child(node, right))
        THEN SwapRes(swap_colour(child(node, right)), node.value, FALSE)
        ELSE SwapRes(double_black(child(node, right)), node.value, TRUE)
    ELSE SwapRes(child(node, right), node.value, FALSE)

swap_innermost_descendant(self) ==
    IF self.kind # "Internal" THEN SwapRes(PanicNode, 0, FALSE)
    ELSE IF ~is_leaf(get_right(self)) \/ ~is_leaf(get_left(self)) THEN
        \* decide which value to switch with
        LET right == ~is_leaf(get_right(self))
        IN  Bind(unlink_innermost(child(self, right), right), LAMBDA sub :
                SwapRes([with_child(self, right, sub.node) EXCEPT !.value = sub.val],
                        self.value, sub.doubled))
    ELSE
        IF is_black(self) THEN SwapRes(Leaf(DBlack), self.value, TRUE)
        ELSE SwapRes(Leaf(Black), self.value, FALSE)

RECURSIVE swap_doubles_up(_, _)
swap_doubles_up(self, right) ==
    IF self.kind # "Internal" THEN FixRes(PanicNode, FALSE)
    ELSE IF is_double_black(child(self, ~right)) THEN deletion_switcheroo(self)
    ELSE Bind(swap_doubles_up(child(self, ~right), right), LAMBDA sub :
         Bind(with_child(self, ~right, sub.node), LAMBDA s1 :
             IF IsPanic(s1) THEN FixRes(PanicNode, FALSE)
             ELSE IF sub.doubled THEN deletion_switcheroo(s1)
             ELSE FixRes(s1, FALSE)))

\* result of a removal step: the node after it and the Removal variant;
\* val is the value of Removed(val) / Doubled(val)
RemRes(n, r, v) == [node |-> n, res |-> r, val |-> v]

\* the Doubled arm of remove_result_step: whether the double black still
\* propagates after this node
doubled_step(self, right) ==
    IF self.kind # "Internal" THEN FixRes(PanicNode, FALSE)
    ELSE IF is_double_black(child(self, right)) THEN deletion_switcheroo(self)
    ELSE Bind(swap_doubles_up(child(self, right), right), LAMBDA sub :
         Bind(with_child(self, right, sub.node), LAMBDA s1 :
             IF IsPanic(s1) THEN FixRes(PanicNode, FALSE)
             ELSE IF sub.doubled THEN deletion_switcheroo(s1)
             ELSE FixRes(s1, FALSE)))

remove_result_step(self, res, right) ==
    CASE res.res = "Match" ->
            Bind(swap_innermost_descendant(self), LAMBDA sw :
                RemRes(sw.node, IF sw.doubled THEN "Doubled" ELSE "Removed", sw.val))
      [] res.res = "Doubled" ->
            Bind(doubled_step(self, right), LAMBDA fix :
                RemRes(fix.node, IF fix.doubled THEN "Doubled" ELSE "Removed", res.val))
      [] res.res = "Removed" -> RemRes(self, "Removed", res.val)
      [] res.res = "NotFound" -> RemRes(self, "NotFound", 0)
      [] OTHER -> RemRes(PanicNode, "Panic", 0)

RECURSIVE remove_op(_, _)
remove_op(self, val) ==
    IF self.kind = "Internal" THEN
        IF ElemEq(val, self.value) THEN
            remove_result_step(self, RemRes(self, "Match", 0), TRUE)
        ELSE
            LET right == ~ElemLt(val, self.value)
            IN  Bind(remove_op(child(self, right), val), LAMBDA sub :
                Bind(with_child(self, right, sub.node), LAMBDA s1 :
                    IF IsPanic(s1) THEN RemRes(PanicNode, "Panic", 0)
                    ELSE remove_result_step(s1, sub, right)))
    ELSE IF self.kind = "Leaf" THEN RemRes(self, "NotFound", 0)
    ELSE RemRes(PanicNode, "Panic", 0)

\* pop_op that takes out the node it is called on instead of descending
pop_op_takes_root(self, back) ==
    IF self.kind = "Internal" THEN
        remove_result_step(self, RemRes(self, "Match", 0), TRUE)
    ELSE IF self.kind = "Leaf" THEN RemRes(self, "NotFound", 0)
    ELSE RemRes(PanicNode, "Panic", 0)

RECURSIVE pop_op(_, _)
pop_op(self, back) ==
    IF self.kind = "Internal" THEN
        IF is_leaf(child(self, back)) THEN
            remove_result_step(self, RemRes(self, "Match", 0), TRUE)
        ELSE
            \* the result of the recursive call is returned as it is
            Bind(pop_op(child(self, back), back), LAMBDA sub :
                RemRes(with_child(self, back, sub.node), sub.res, sub.val))
    ELSE IF self.kind = "Leaf" THEN RemRes(self, "NotFound", 0)
    ELSE RemRes(PanicNode, "Panic", 0)

\* removal_finish recolouring the root on NotFound as it does on Doubled
removal_finish_recolours_notfound(r) ==
    IF IsPanic(r.node) THEN NodeRet(PanicNode, None)
    ELSE CASE r.res = "NotFound" -> NodeRet(swap_colour(r.node), None)
           [] r.res = "Removed" -> NodeRet(r.node, Some(r.val))
           [] r.res = "Doubled" -> NodeRet(swap_colour(r.node), Some(r.val))
           [] OTHER -> NodeRet(PanicNode, None)

\* the match on the Removal shared by Node::pop and Node::remove
removal_finish(r) ==
    IF IsPanic(r.node) THEN NodeRet(PanicNode, None)
    ELSE CASE r.res = "NotFound" -> NodeRet(r.node, None)
           [] r.res = "Removed" -> NodeRet(r.node, Some(r.val))
           [] r.res = "Doubled" -> NodeRet(swap_colour(r.node), Some(r.val))
           \* "Returned invalid option, tree structure damaged"
           [] OTHER -> NodeRet(PanicNode, None)

\* Node::pop that always pops at the front
Node_pop_front_only(self, back) ==
    Bind(pop_op(self, FALSE), LAMBDA r : removal_finish(r))

Node_pop(self, back) == Bind(pop_op(self, back), LAMBDA r : removal_finish(r))

\* as with insertion, this should only be called on the root
Node_remove(self, val) == Bind(remove_op(self, val), LAMBDA r : removal_finish(r))

RECURSIVE Node_get(_, _)
Node_get(self, val) ==
    IF is_leaf(self) THEN None
    ELSE IF ElemEq(val, self.value) THEN Some(self.value)
    ELSE IF ElemLt(val, self.value) THEN Node_get(get_left(self), val)
    ELSE Node_get(get_right(self), val)

\* Node::peek that does not descend
Node_peek_stops_at_root(self, back) ==
    IF is_leaf(self) THEN None ELSE Some(self.value)

RECURSIVE Node_peek(_, _)
Node_peek(self, back) ==
    IF is_leaf(self) THEN None
    ELSE IF back THEN
        IF ~is_leaf(get_right(self)) THEN Node_peek(get_right(self), back)
        ELSE Some(self.value)
    ELSE
        IF ~is_leaf(get_left(self)) THEN Node_peek(get_left(self), back)
        ELSE Some(self.value)

RECURSIVE ordered_insertion_self_first(_)
\* ordered_insertion pushing the node's own value before its left subtree
ordered_insertion_self_first(cur) ==
    IF is_leaf(cur) THEN <<>>
    ELSE <<cur.value>> \o ordered_insertion_self_first(get_left(cur))
         \o ordered_insertion_self_first(get_right(cur))

\* helpers::ordered_insertion: in-order traversal
RECURSIVE ordered_insertion(_)
ordered_insertion(cur) ==
    IF is_leaf(cur) THEN <<>>
    ELSE ordered_insertion(get_left(cur)) \o <<cur.value>>
         \o ordered_insertion(get_right(cur))

----------------------------------------------------------------------------
\* The steps a call makes: one for every invocation of a recursive function
\* and one for every iteration of the successor search loop. Each operator
\* follows the calls of the function it is named after.

RECURSIVE insert_op_steps(_, _)
insert_op_steps(self, new_v) ==
    IF self.kind = "Internal" /\ ~ElemEq(self.value, new_v)
    THEN 1 + insert_op_steps(child(self, ~ElemGt(self.value, new_v)), new_v)
    ELSE 1

RECURSIVE deletion_switcheroo_steps(_)
deletion_switcheroo_steps(self) ==
    IF self.kind # "Internal" THEN 1
    ELSE
        LET right == ~is_double_black(get_right(self))
        IN  IF is_black(child(self, right)) THEN 1
            ELSE
                \* the sibling-Red rotation, the fixup at the child and, if
                \* that one propagates, the re-entry
                Bind(child_red(black(outer_switcheroo(self, right)), ~right), LAMBDA s2 :
                Bind(deletion_switcheroo(child(s2, ~right)), LAMBDA sub :
                    1 + deletion_switcheroo_steps(child(s2, ~right))
                      + (IF sub.doubled /\ ~IsPanic(sub.node)
                         THEN deletion_switcheroo_steps(with_child(s2, ~right, sub.node))
                         ELSE 0)))

RECURSIVE unlink_innermost_steps(_, _)
\* iterations of `while !node.child(!right).is_leaf()`
unlink_innermost_steps(node, right) ==
    IF ~is_leaf(child(node, ~right))
    THEN 1 + unlink_innermost_steps(child(node, ~right), right)
    ELSE 0

swap_innermost_descendant_steps(self) ==
    IF self.kind # "Internal" THEN 0
    ELSE IF ~is_leaf(get_right(self)) \/ ~is_leaf(get_left(self))
    THEN unlink_innermost_steps(child(self, ~is_leaf(get_right(self))),
                                ~is_leaf(get_right(self)))
    ELSE 0

RECURSIVE swap_doubles_up_steps(_, _)
swap_doubles_up_steps(self, right) ==
    IF self.kind # "Internal" THEN 1
    ELSE IF is_double_black(child(self, ~right))
    THEN 1 + deletion_switcheroo_steps(self)
    ELSE Bind(swap_doubles_up(child(self, ~right), right), LAMBDA sub :
             1 + swap_doubles_up_steps(child(self, ~right), right)
               + (IF sub.doubled /\ ~IsPanic(sub.node)
                  THEN deletion_switcheroo_steps(with_child(self, ~right, sub.node))
                  ELSE 0))

doubled_step_steps(self, right) ==
    IF self.kind # "Internal" THEN 0
    ELSE IF is_double_black(child(self, right)) THEN deletion_switcheroo_steps(self)
    ELSE Bind(swap_doubles_up(child(self, right), right), LAMBDA sub :
             swap_doubles_up_steps(child(self, right), right)
             + (IF sub.doubled /\ ~IsPanic(sub.node)
                THEN deletion_switcheroo_steps(with_child(self, right, sub.node))
                ELSE 0))

remove_result_step_steps(self, res, right) ==
    CASE res.res = "Match" -> swap_innermost_descendant_steps(self)
      [] res.res = "Doubled" -> doubled_step_steps(self, right)
      [] OTHER -> 0

RECURSIVE remove_op_steps(_, _)
remove_op_steps(self, val) ==
    IF self.kind = "Internal" THEN
        IF ElemEq(val, self.value) THEN
            1 + remove_result_step_steps(self, RemRes(self, "Match", 0), TRUE)
        ELSE
            LET right == ~ElemLt(val, self.value)
            IN  Bind(remove_op(child(self, right), val), LAMBDA sub :
                    1 + remove_op_steps(child(self, right), val)
                      + (IF IsPanic(sub.node) THEN 0
                         ELSE remove_result_step_steps(
                                  with_child(self, right, sub.node), sub, right)))
    ELSE 1

RECURSIVE pop_op_steps(_, _)
pop_op_steps(self, back) ==
    IF self.kind = "Internal" THEN
        IF is_leaf(child(self, back)) THEN
            1 + remove_result_step_steps(self, RemRes(self, "Match", 0), TRUE)
        ELSE 1 + pop_op_steps(child(self, back), back)
    ELSE 1

----------------------------------------------------------------------------
\* Where a removal runs the fixup. A site is the node on which
\* swap_doubles_up or remove_result_step calls deletion_switcheroo, with the
\* value it holds and what the call reported.

FixupSite(self) ==
    [value |-> self.value, doubled |-> deletion_switcheroo(self).doubled, self |-> self]

RECURSIVE swap_doubles_up_sites(_, _)
\* the calls of deletion_switcheroo made by swap_doubles_up
swap_doubles_up_sites(self, right) ==
    IF self.kind # "Internal" THEN {}
    ELSE IF is_double_black(child(self, ~right))
    THEN {FixupSite(self)}
    ELSE Bind(swap_doubles_up(child(self, ~right), right), LAMBDA sub :
             swap_doubles_up_sites(child(self, ~right), right)
             \cup (IF sub.doubled /\ ~IsPanic(sub.node)
                   THEN {FixupSite(with_child(self, ~right, sub.node))}
                   ELSE {}))

\* the calls of deletion_switcheroo made by the Doubled arm of
\* remove_result_step
doubled_step_sites(self, right) ==
    IF self.kind # "Internal" THEN {}
    ELSE IF is_double_black(child(self, right))
    THEN {FixupSite(self)}
    ELSE Bind(swap_doubles_up(child(self, right), right), LAMBDA sub :
             swap_doubles_up_sites(child(self, right), right)
             \cup (IF sub.doubled /\ ~IsPanic(sub.node)
                   THEN {FixupSite(with_child(self, right, sub.node))}
                   ELSE {}))

RECURSIVE remove_op_sites(_, _)
\* the calls of deletion_switcheroo made while remove_op(val) runs on self
remove_op_sites(self, val) ==
    IF self.kind # "Internal" THEN {}
    ELSE IF ElemEq(val, self.value) THEN {}
    ELSE Bind(remove_op(child(self, ~ElemLt(val, self.value)), val), LAMBDA sub :
             remove_op_sites(child(self, ~ElemLt(val, self.value)), val)
             \cup (IF sub.res = "Doubled" /\ ~IsPanic(sub.node)
                   THEN doubled_step_sites(
                            with_child(self, ~ElemLt(val, self.value), sub.node),
                            ~ElemLt(val, self.value))
                   ELSE {}))

RECURSIVE unlink_path(_, _, _)
\* the ancestors, nearest first, of the slot swap_innermost_descendant
\* vacates below `node`, if it leaves that slot double black; `above` are
\* the ancestors of `node`
unlink_path(node, right, above) ==
    IF ~is_leaf(child(node, ~right))
    THEN unlink_path(child(node, ~right), right, <<node.value>> \o above)
    ELSE IF is_black(node) /\ ~is_red(child(node, right)) THEN above
    ELSE <<>>

RECURSIVE deficient_path(_, _, _)
\* the ancestors, nearest first and by the values they hold once the matched
\* value is swapped out, of the position remove_op(val) leaves double black;
\* empty when there is no such position or it is the root
deficient_path(self, val, above) ==
    IF self.kind # "Internal" THEN <<>>
    ELSE IF ElemEq(val, self.value) THEN
        IF ~is_leaf(get_right(self)) \/ ~is_leaf(get_left(self))
        THEN unlink_path(child(self, ~is_leaf(get_right(self))),
                         ~is_leaf(get_right(self)),
                         <<swap_innermost_descendant(self).node.value>> \o above)
        ELSE IF is_black(self) THEN above ELSE <<>>
    ELSE deficient_path(child(self, ~ElemLt(val, self.value)), val,
                        <<self.value>> \o above)

\* one call of deletion_switcheroo: the node it is called on and its result
FixupCall(self) == [self |-> self, fix |-> deletion_switcheroo(self)]

RECURSIVE deletion_switcheroo_calls(_)
\* the call of deletion_switcheroo on self and the calls made from within it
\* (node.rs 505-506)
deletion_switcheroo_calls(self) ==
    IF self.kind # "Internal" THEN {FixupCall(self)}
    ELSE IF is_black(child(self, ~is_double_black(get_right(self)))) THEN {FixupCall(self)}
    ELSE Bind(child_red(black(outer_switcheroo(self, ~is_double_black(get_right(self)))),
                        is_double_black(get_right(self))), LAMBDA s2 :
             IF IsPanic(s2) THEN {FixupCall(self)}
             ELSE Bind(deletion_switcheroo(child(s2, is_double_black(get_right(self)))),
                       LAMBDA sub :
                      {FixupCall(self)}
                      \cup deletion_switcheroo_calls(
                               child(s2, is_double_black(get_right(self))))
                      \cup (IF sub.doubled /\ ~IsPanic(sub.node)
                            THEN deletion_switcheroo_calls(
                                     with_child(s2, is_double_black(get_right(self)),
                                                sub.node))
                            ELSE {})))

\* every call of deletion_switcheroo made while Node::remove(val) runs on tree
removal_fixups(tree, val) ==
    UNION {deletion_switcheroo_calls(site.self) : site \in remove_op_sites(tree, val)}

\* one step of insert_op at an Internal node that does not hold new_v: the
\* node once the insertion below it on side `right` is done, what that
\* insertion returned, the colour test of the other child, and the node and
\* the Insertion this step returns
InsertStep(self, new_v) ==
    [self     |-> with_child(self, ~ElemGt(self.value, new_v),
                             insert_op(child(self, ~ElemGt(self.value, new_v)),
                                       new_v).node),
     right    |-> ~ElemGt(self.value, new_v),
     sub      |-> insert_op(child(self, ~ElemGt(self.value, new_v)), new_v).res,
     recolour |-> is_red(child(self, ElemGt(self.value, new_v))),
     out      |-> insert_op(self, new_v)]

RECURSIVE insert_op_trace(_, _)
\* the steps of insert_op(new_v) on self, from self down to the parent of
\* the Leaf or of the node that holds new_v
insert_op_trace(self, new_v) ==
    IF self.kind # "Internal" THEN <<>>
    ELSE IF ElemEq(self.value, new_v) THEN <<>>
    ELSE <<InsertStep(self, new_v)>>
         \o insert_op_trace(child(self, ~ElemGt(self.value, new_v)), new_v)

----------------------------------------------------------------------------
\* RBTree (src/rbtree.rs): a root Node and the running count `contained`.
\* in_q is the reference set of the stress test, op the last call made and
\* returned what that call returned.

Bool(b) == [kind |-> IF b THEN "true" ELSE "false", val |-> 0]

Panicked == [kind |-> "panic", val |-> 0]

Call(name, arg) == [name |-> name, arg |-> arg]

len == contained

is_empty == len = 0

ordered == ordered_insertion(root)

contains(val) == Node_get(root, val) # None

\* RBTree::iter: an Iter over the vector ordered() gives
iter == [pos |-> 0, ordered |-> ordered]

\* Iterator::next of Iter: the iterator afterwards and the item
Iter_next(it) ==
    IF it.pos < Len(it.ordered)
    THEN [it |-> [it EXCEPT !.pos = it.pos + 1], ret |-> Some(it.ordered[it.pos + 1])]
    ELSE [it |-> it, ret |-> None]

RECURSIVE Iter_collect(_)
\* the items next() yields until it yields None
Iter_collect(it) ==
    IF Iter_next(it).ret = None THEN <<>>
    ELSE <<Iter_next(it).ret.val>> \o Iter_collect(Iter_next(it).it)

\* RBTree::iter of the tree whose root is `tree`
Iter(tree) == [pos |-> 0, ordered |-> ordered_insertion(tree)]

\* the fields of Difference, SymmetricDifference, Intersection and Union
SetIter(kind, nextl, nextr, left, right) ==
    [kind |-> kind, nextl |-> nextl, nextr |-> nextr, left |-> left, right |-> right]

\* no set iterator is alive
NoIter == SetIter("none", None, None, Iter(Leaf(Black)), Iter(Leaf(Black)))

\* self.nextl = self.left.next()
advance_l(s) ==
    [s EXCEPT !.nextl = Iter_next(s.left).ret, !.left = Iter_next(s.left).it]

\* self.nextr = self.right.next()
advance_r(s) ==
    [s EXCEPT !.nextr = Iter_next(s.right).ret, !.right = Iter_next(s.right).it]

\* a set iterator after a call of next and the item the call returned
IterRet(s, r) == [it |-> s, ret |-> r]

\* the reference set after its least / greatest key is taken out
WithoutMin(S) == {x \in S : \E y \in S : y < x}

WithoutMax(S) == {x \in S : \E y \in S : y > x}

\* RBTree::new()
Init ==
    /\ root = Leaf(Black)
    /\ contained = 0
    /\ in_q = {}
    /\ panicked = FALSE
    /\ op = Call("new", 0)
    /\ returned = None
    /\ cmp = "PartialOrd"
    /\ other = Leaf(Black)
    /\ set_iter = NoIter
    /\ collected = <<>>
    /\ fixups = {}
    /\ matched = Leaf(Black)
    /\ inserting = <<>>

RECURSIVE MatchedNode(_, _)
\* the node remove_op(val) matches below n, a Leaf if there is none
MatchedNode(n, val) ==
    IF n.kind # "Internal" THEN n
    ELSE IF ElemEq(val, n.value) THEN n
    ELSE MatchedNode(child(n, ~ElemLt(val, n.value)), val)

\* the node the call matches on the tree as it is
MatchedOf(call) ==
    IF call.name \in {"take", "remove"} THEN MatchedNode(root, call.arg)
    ELSE Leaf(Black)

\* the steps of insert_op the call makes on the tree as it is
InsertingOf(call) ==
    IF call.name \in {"insert", "replace"} THEN insert_op_trace(root, call.arg)
    ELSE <<>>

\* the calls of deletion_switcheroo the call makes on the tree as it is
FixupsOf(call) ==
    IF call.name \in {"take", "remove"} THEN removal_fixups(root, call.arg) ELSE {}

\* a call that panics: the thread unwinds and the tree is not used again
Unwind(call, ref) ==
    /\ root' = PanicNode
    /\ panicked' = TRUE
    /\ contained' = contained
    /\ in_q' = ref
    /\ op' = call
    /\ returned' = Panicked
    /\ cmp' = cmp
    /\ fixups' = FixupsOf(call)
    /\ matched' = MatchedOf(call)
    /\ inserting' = InsertingOf(call)
    /\ UNCHANGED <<other, set_iter, collected>>

\* a call that returns
Return(call, node, count, ref, r) ==
    /\ root' = node
    /\ panicked' = FALSE
    /\ contained' = count
    /\ in_q' = ref
    /\ op' = call
    /\ returned' = r
    /\ cmp' = cmp
    /\ fixups' = FixupsOf(call)
    /\ matched' = MatchedOf(call)
    /\ inserting' = InsertingOf(call)
    /\ UNCHANGED <<other, set_iter, collected>>

\* insert that counts a replaced element as a new one
Insert_counts_replaced(val) ==
    /\ ~panicked
    /\ \E r \in {Node_insert(root, val)} :
           IF IsPanic(r.node) THEN Unwind(Call("insert", val), in_q \cup {MapperKey(val)})
           ELSE Return(Call("insert", val), r.node, contained + 1,
                       in_q \cup {MapperKey(val)}, Bool(r.ret = None))

Insert(val) ==
    /\ ~panicked
    /\ \E r \in {Node_insert(root, val)} :
           IF IsPanic(r.node) THEN Unwind(Call("insert", val), in_q \cup {MapperKey(val)})
           ELSE Return(Call("insert", val), r.node,
                       IF r.ret = None THEN contained + 1 ELSE contained,
                       in_q \cup {MapperKey(val)}, Bool(r.ret = None))

\* replace that hands back the element it was given instead of the one
\* it displaced
Replace_returns_given(val) ==
    /\ ~panicked
    /\ \E r \in {Node_insert(root, val)} :
           IF IsPanic(r.node)
           THEN Unwind(Call("replace", val), in_q \cup {MapperKey(val)})
           ELSE Return(Call("replace", val), r.node,
                       IF r.ret = None THEN contained + 1 ELSE contained,
                       in_q \cup {MapperKey(val)},
                       IF r.ret = None THEN None ELSE Some(val))

Replace(val) ==
    /\ ~panicked
    /\ \E r \in {Node_insert(root, val)} :
           IF IsPanic(r.node)
           THEN Unwind(Call("replace", val), in_q \cup {MapperKey(val)})
           ELSE Return(Call("replace", val), r.node,
                       IF r.ret = None THEN contained + 1 ELSE contained,
                       in_q \cup {MapperKey(val)}, r.ret)

\* take that forgets `self.contained -= 1`
Take_no_decrement(val) ==
    /\ ~panicked
    /\ \E r \in {Node_remove(root, val)} :
           IF IsPanic(r.node) THEN Unwind(Call("take", val), in_q \ {val})
           ELSE Return(Call("take", val), r.node, contained,
                       in_q \ {val}, r.ret)

Take(val) ==
    /\ ~panicked
    /\ \E r \in {Node_remove(root, val)} :
           IF IsPanic(r.node) THEN Unwind(Call("take", val), in_q \ {val})
           ELSE Return(Call("take", val), r.node,
                       IF r.ret # None THEN contained - 1 ELSE contained,
                       in_q \ {val}, r.ret)

Remove(val) ==
    /\ ~panicked
    /\ \E r \in {Node_remove(root, val)} :
           IF IsPanic(r.node) THEN Unwind(Call("remove", val), in_q \ {val})
           ELSE Return(Call("remove", val), r.node,
                       IF r.ret # None THEN contained - 1 ELSE contained,
                       in_q \ {val}, Bool(r.ret # None))

Pop ==
    /\ ~panicked
    /\ \E r \in {Node_pop(root, FALSE)} :
           IF IsPanic(r.node) THEN Unwind(Call("pop", 0), WithoutMin(in_q))
           ELSE Return(Call("pop", 0), r.node,
                       IF r.ret # None THEN contained - 1 ELSE contained,
                       WithoutMin(in_q), r.ret)

PopBack ==
    /\ ~panicked
    /\ \E r \in {Node_pop(root, TRUE)} :
           IF IsPanic(r.node) THEN Unwind(Call("pop_back", 0), WithoutMax(in_q))
           ELSE Return(Call("pop_back", 0), r.node,
                       IF r.ret # None THEN contained - 1 ELSE contained,
                       WithoutMax(in_q), r.ret)

Get(val) ==
    /\ ~panicked
    /\ Return(Call("get", val), root, contained, in_q, Node_get(root, val))

Contains(val) ==
    /\ ~panicked
    /\ Return(Call("contains", val), root, contained, in_q, Bool(contains(val)))

Peek ==
    /\ ~panicked
    /\ Return(Call("peek", 0), root, contained, in_q, Node_peek(root, FALSE))

PeekBack ==
    /\ ~panicked
    /\ Return(Call("peek_back", 0), root, contained, in_q, Node_peek(root, TRUE))

Next ==
    \/ \E val \in Keys : Insert(val)
    \/ \E val \in Keys : Replace(val)
    \/ \E val \in Keys : Take(val)
    \/ \E val \in Keys : Remove(val)
    \/ Pop
    \/ PopBack
    \/ \E val \in Keys : Get(val)
    \/ \E val \in Keys : Contains(val)
    \/ Peek
    \/ PeekBack

Spec == Init /\ [][Next]_vars

\* The stress test (src/stress_test.rs): RBMap::insert of keys not in the
\* reference (RBTree::replace), RBMap::remove_entry of keys in the reference
\* (RBTree::take), then contains_key / get of every key.
StressNext ==
    \/ \E val \in Keys : val \notin in_q /\ Replace(val)
    \/ \E val \in Keys : val \in in_q /\ Take(val)
    \/ \E val \in Keys : Contains(val)
    \/ \E val \in Keys : Get(val)

SpecStress == Init /\ [][StressNext]_vars

\* Option::map
OptionMap(o, F(_)) == IF o.kind = "Some" THEN [kind |-> "Some", val |-> F(o.val)] ELSE o

\* RBMap::get on the map whose tree is `tree`
RBMap_get(tree, key) == OptionMap(Node_get(tree, Mapper(key, 0)), MapperVal)

\* what RBMap::insert hands back, given what RBTree::replace returned
RBMap_insert_result(replaced) == OptionMap(replaced, consume)

\* The tree used as a map (src/rbmap.rs): RBMap::insert of a key with any
\* payload (RBTree::replace of a Mapper), RBMap::remove_entry (RBTree::take)
\* and RBMap::get_pair (RBTree::get) by key.
MapNext ==
    \/ \E k \in Keys, v \in Payloads : Replace(Mapper(k, v))
    \/ \E k \in Keys : Take(k)
    \/ \E k \in Keys : Get(k)

SpecMap == Init /\ [][MapNext]_vars

\* sort() of examples/sorter.rs: the tree is filled from the input vector
\* and then drained by `while let Some(v) = tree.pop()`; the same loop with
\* pop_back drains it from the back. in_q holds the keys not yet yielded.
SorterFilling == op.name \in {"new", "insert"}

SorterDraining(name) == op.name = name /\ returned # None

SorterNext ==
    \/ \E val \in Keys : SorterFilling /\ Insert(val)
    \/ (SorterFilling \/ SorterDraining("pop")) /\ Pop
    \/ (SorterFilling \/ SorterDraining("pop_back")) /\ PopBack

SpecSorter == Init /\ [][SorterNext]_vars

\* test_black_leaf_removal / test_remove_accumulative_changes
\* (src/rbtree_tests.rs): the keys are inserted in this order, with any
\* payload, and then removed in this order, by remove or by take. The last
\* call made tells how far the test has got.
ScriptInserts == <<65, 50, 80, 10, 60, 62, 70, 90, 92>>

ScriptRemovals == <<92, 90, 80, 70>>

ScriptPos ==
    IF op.name = "new" THEN 0
    ELSE IF op.name = "insert"
    THEN CHOOSE i \in 1 .. Len(ScriptInserts) : ScriptInserts[i] = MapperKey(op.arg)
    ELSE Len(ScriptInserts)
         + (CHOOSE i \in 1 .. Len(ScriptRemovals) : ScriptRemovals[i] = op.arg)

ScriptNext ==
    \/ \E v \in Payloads :
           /\ ScriptPos < Len(ScriptInserts)
           /\ Insert(Mapper(ScriptInserts[ScriptPos + 1], v))
    \/ /\ ScriptPos >= Len(ScriptInserts)
       /\ ScriptPos < Len(ScriptInserts) + Len(ScriptRemovals)
       /\ Remove(ScriptRemovals[ScriptPos + 1 - Len(ScriptInserts)])
    \/ /\ ScriptPos >= Len(ScriptInserts)
       /\ ScriptPos < Len(ScriptInserts) + Len(ScriptRemovals)
       /\ Take(ScriptRemovals[ScriptPos + 1 - Len(ScriptInserts)])

SpecScript == Init /\ [][ScriptNext]_vars

\* The tree used as a priority queue (the use rbtree.rs documents for pop
\* and peek): elements are put in with insert and taken out at the front
\* with pop.
MaxQueueKey == 6

QueueKeys == 0 .. (MaxQueueKey - 1)

QueueNext ==
    \/ \E val \in QueueKeys : Insert(val)
    \/ Pop
    \/ Peek

SpecQueue == Init /\ [][QueueNext]_vars

\* RBQueue (src/rbqueue.rs): the same tree with the ordering function `cmp`
\* given to RBQueue::new, here one of the two queues of examples/queue.rs.
\* The methods of RBQueue have the bodies of those of RBTree.
InitRBQueue ==
    /\ root = Leaf(Black)
    /\ contained = 0
    /\ in_q = {}
    /\ panicked = FALSE
    /\ op = Call("new", 0)
    /\ returned = None
    /\ cmp \in {"partial_cmp", "r - l"}
    /\ other = Leaf(Black)
    /\ set_iter = NoIter
    /\ collected = <<>>
    /\ fixups = {}
    /\ matched = Leaf(Black)
    /\ inserting = <<>>

RBQueueNext ==
    \/ \E val \in Keys : Insert(val)
    \/ Pop
    \/ PopBack
    \/ Peek
    \/ PeekBack

SpecRBQueue == InitRBQueue /\ [][RBQueueNext]_vars

\* The queue q2 of examples/queue.rs, rbqueue_c_new!(|l: &i64, r| (r - l)),
\* holding i64 numbers 0, CStride, 2 * CStride, ... that lie far apart.
CStride == 100

MaxCIndex == 4

CValues == {i * CStride : i \in 0 .. MaxCIndex}

InitCQueue ==
    /\ root = Leaf(Black)
    /\ contained = 0
    /\ in_q = {}
    /\ panicked = FALSE
    /\ op = Call("new", 0)
    /\ returned = None
    /\ cmp = "r - l"
    /\ other = Leaf(Black)
    /\ set_iter = NoIter
    /\ collected = <<>>
    /\ fixups = {}
    /\ matched = Leaf(Black)
    /\ inserting = <<>>

\* the most nodes the queue is let grow to: with a comparator that is not an
\* order the tree can take the same value twice, so its size has no bound
MaxCNodes == 5

CQueueNext ==
    \/ \E val \in CValues : contained < MaxCNodes /\ Insert(val)
    \/ Pop
    \/ Peek

SpecCQueue == InitCQueue /\ [][CQueueNext]_vars

\* Removals on trees deep enough for every case of the deletion fixup
\* (src/rbtree_tests.rs, test_black_leaf_removal .. test_removeal_case4):
\* insert and take of any key.
MaxRemovalKey == 5

RemovalKeys == 0 .. (MaxRemovalKey - 1)

RemovalNext ==
    \/ \E val \in RemovalKeys : Insert(val)
    \/ \E val \in RemovalKeys : Take(val)

SpecRemoval == Init /\ [][RemovalNext]_vars

\* The stress test's alternation (src/stress_test.rs) on one key more:
\* insert of a key that is not in the reference, take of one that is.
MaxChurnKey == 6

ChurnKeys == 0 .. (MaxChurnKey - 1)

ChurnNext ==
    \/ \E val \in ChurnKeys : val \notin in_q /\ Insert(val)
    \/ \E val \in ChurnKeys : val \in in_q /\ Take(val)

SpecChurn == Init /\ [][ChurnNext]_vars

----------------------------------------------------------------------------
\* An RBTree of elements that compare by their key alone (as Mapper does):
\* equal elements can be told apart by their payload.

MaxKeyedKey == 3

KeyedKeys == 0 .. (MaxKeyedKey - 1)

KeyedNext ==
    \/ \E k \in KeyedKeys, v \in Payloads : Insert(Mapper(k, v))
    \/ \E k \in KeyedKeys, v \in Payloads : Replace(Mapper(k, v))
    \/ \E k \in KeyedKeys : Take(k)
    \/ Pop

SpecKeyed == Init /\ [][KeyedNext]_vars

----------------------------------------------------------------------------
\* The rotations on their own: inner_switcheroo and outer_switcheroo called
\* on the root of any search tree over a few values, whatever its colours.

MaxRotationKey == 4

RECURSIVE TreesOver(_, _)
\* the search trees that hold the values lo .. hi, each node Red or Black
TreesOver(lo, hi) ==
    IF lo > hi THEN {Leaf(Black)}
    ELSE UNION {{Internal(v, c, l, r) :
                    c \in {Red, Black},
                    l \in TreesOver(lo, v - 1),
                    r \in TreesOver(v + 1, hi)} : v \in lo .. hi}

InitRotations ==
    /\ root \in UNION {TreesOver(0, hi) : hi \in 0 .. MaxRotationKey - 1}
    /\ contained = 0
    /\ in_q = {}
    /\ panicked = FALSE
    /\ op = Call("new", 0)
    /\ returned = None
    /\ cmp = "PartialOrd"
    /\ other = Leaf(Black)
    /\ set_iter = NoIter
    /\ collected = <<>>
    /\ fixups = {}
    /\ matched = Leaf(Black)
    /\ inserting = <<>>

\* arg is 1 for right = true and 0 for right = false
OuterSwitcheroo(arg) ==
    /\ ~panicked
    /\ \E r \in {outer_switcheroo(root, arg = 1)} :
           IF IsPanic(r) THEN Unwind(Call("outer_switcheroo", arg), in_q)
           ELSE Return(Call("outer_switcheroo", arg), r, contained, in_q, None)

InnerSwitcheroo(arg) ==
    /\ ~panicked
    /\ \E r \in {inner_switcheroo(root, arg = 1)} :
           IF IsPanic(r) THEN Unwind(Call("inner_switcheroo", arg), in_q)
           ELSE Return(Call("inner_switcheroo", arg), r, contained, in_q, None)

RotationsNext ==
    \/ \E arg \in {0, 1} : OuterSwitcheroo(arg)
    \/ \E arg \in {0, 1} : InnerSwitcheroo(arg)

SpecRotations == InitRotations /\ [][RotationsNext]_vars

----------------------------------------------------------------------------
\* The set iterators of RBTree (src/rbtree.rs): difference,
\* symmetric_difference, intersection and union walk the two trees' Iters
\* side by side, each holding the next item of either side.

RECURSIVE Difference_next(_), Difference_right(_, _)
\* a difference that hands out the left item also when the right side has
\* an equal one
Difference_right_keeps_common(s, vl) ==
    IF s.nextr = None THEN IterRet(s, Some(vl))
    ELSE IF ElemLt(vl, s.nextr.val) THEN IterRet(s, Some(vl))
    ELSE IF ElemEq(vl, s.nextr.val) THEN IterRet(advance_r(s), Some(vl))
    ELSE Difference_right(advance_r(s), vl)

\* Difference::next, the loop 'right for the left item vl already taken
Difference_right(s, vl) ==
    IF s.nextr = None THEN IterRet(s, Some(vl))
    ELSE IF ElemLt(vl, s.nextr.val) THEN IterRet(s, Some(vl))
    ELSE IF ElemEq(vl, s.nextr.val) THEN Difference_next(advance_r(s))
    ELSE Difference_right(advance_r(s), vl)

Difference_next(s) ==
    IF s.nextl = None THEN IterRet(s, None)
    ELSE Difference_right(advance_l(s), s.nextl.val)

RECURSIVE Intersection_next(_)
\* Intersection::next
Intersection_next(s) ==
    IF s.nextl = None \/ s.nextr = None THEN IterRet(s, None)
    ELSE IF ElemLt(s.nextl.val, s.nextr.val) THEN Intersection_next(advance_l(s))
    ELSE IF ElemEq(s.nextl.val, s.nextr.val)
         THEN IterRet(advance_l(advance_r(s)), s.nextl)
    ELSE Intersection_next(advance_r(s))

\* the end of SymmetricDifference::next and Union::next: with no item chosen
\* by the loop the right side's next item is handed out
right_remainder(r) ==
    IF r.ret = None THEN IterRet(advance_r(r.it), r.it.nextr) ELSE r

RECURSIVE SymmetricDifference_loop(_)
\* SymmetricDifference::next, the loop 'left
SymmetricDifference_loop(s) ==
    IF s.nextl = None THEN IterRet(s, None)
    ELSE IF s.nextr = None THEN IterRet(advance_l(s), s.nextl)
    ELSE IF ElemLt(s.nextl.val, s.nextr.val) THEN IterRet(advance_l(s), s.nextl)
    ELSE IF ElemEq(s.nextl.val, s.nextr.val)
         THEN SymmetricDifference_loop(advance_r(advance_l(s)))
    ELSE IterRet(advance_r(s), s.nextr)

SymmetricDifference_next(s) == right_remainder(SymmetricDifference_loop(s))

\* a union that on vl > vr hands out the left item instead of the right one
Union_loop_left_first(s) ==
    IF s.nextl = None THEN IterRet(s, None)
    ELSE IF s.nextr = None THEN IterRet(advance_l(s), s.nextl)
    ELSE IF ElemLt(s.nextl.val, s.nextr.val) THEN IterRet(advance_l(s), s.nextl)
    ELSE IF ElemEq(s.nextl.val, s.nextr.val)
         THEN IterRet(advance_l(advance_r(s)), s.nextl)
    ELSE IterRet(advance_l(s), s.nextl)

\* Union::next, the loop 'left
Union_loop(s) ==
    IF s.nextl = None THEN IterRet(s, None)
    ELSE IF s.nextr = None THEN IterRet(advance_l(s), s.nextl)
    ELSE IF ElemLt(s.nextl.val, s.nextr.val) THEN IterRet(advance_l(s), s.nextl)
    ELSE IF ElemEq(s.nextl.val, s.nextr.val)
         THEN IterRet(advance_l(advance_r(s)), s.nextl)
    ELSE IterRet(advance_r(s), s.nextr)

Union_next(s) == right_remainder(Union_loop(s))

IterKinds == {"Difference", "SymmetricDifference", "Intersection", "Union"}

\* Iterator::next of the set iterator s
SetIter_next(s) ==
    CASE s.kind = "Difference" -> Difference_next(s)
      [] s.kind = "SymmetricDifference" -> SymmetricDifference_next(s)
      [] s.kind = "Intersection" -> Intersection_next(s)
      [] s.kind = "Union" -> Union_next(s)

\* RBTree::difference, symmetric_difference, intersection, union of the
\* trees rooted at a and b: both Iters are made and each one's first item
\* is fetched
set_iter_new(kind, a, b) ==
    SetIter(kind, Iter_next(Iter(a)).ret, Iter_next(Iter(b)).ret,
            Iter_next(Iter(a)).it, Iter_next(Iter(b)).it)

RECURSIVE SetIter_collect(_)
\* Iterator::collect: the items next() yields until it yields None
SetIter_collect(s) ==
    IF SetIter_next(s).ret = None THEN <<>>
    ELSE <<SetIter_next(s).ret.val>> \o SetIter_collect(SetIter_next(s).it)

RECURSIVE from_iter(_)
\* FromIterator for RBTree: the root after every item is inserted in turn
from_iter(items) ==
    IF items = <<>> THEN Leaf(Black)
    ELSE Bind(from_iter(SubSeq(items, 1, Len(items) - 1)),
              LAMBDA tree : Node_insert(tree, items[Len(items)]).node)

RECURSIVE Ascending(_)
\* the keys of S as the tests list them, least first
Ascending(S) ==
    IF S = {} THEN <<>>
    ELSE <<CHOOSE x \in S : \A y \in S : x <= y>>
         \o Ascending(S \ {CHOOSE x \in S : \A y \in S : x <= y})

\* two trees filled as the tests fill them
InitSets ==
    \E S, T \in SUBSET Keys :
        /\ cmp = "PartialOrd"
        /\ root = from_iter(Ascending(S))
        /\ contained = Cardinality(S)
        /\ in_q = S
        /\ panicked = FALSE
        /\ op = Call("new", 0)
        /\ returned = None
        /\ other = from_iter(Ascending(T))
        /\ set_iter = NoIter
        /\ collected = <<>>
        /\ fixups = {}
        /\ matched = Leaf(Black)
        /\ inserting = <<>>

\* t1.difference(&t2) and its like: a set iterator over self and other
NewSetIter(kind) ==
    /\ set_iter' = set_iter_new(kind, root, other)
    /\ collected' = <<>>
    /\ op' = Call(kind, 0)
    /\ returned' = None
    /\ UNCHANGED <<root, contained, in_q, panicked, cmp, other, fixups, matched, inserting>>

\* one call of next() by collect(), or after it
SetIterNext ==
    /\ set_iter.kind \in IterKinds
    /\ \E r \in {SetIter_next(set_iter)} :
           /\ set_iter' = r.it
           /\ returned' = r.ret
           /\ collected' = IF r.ret = None THEN collected
                           ELSE Append(collected, r.ret.val)
    /\ op' = Call("next", 0)
    /\ UNCHANGED <<root, contained, in_q, panicked, cmp, other, fixups, matched, inserting>>

SetsNext ==
    \/ \E kind \in IterKinds : NewSetIter(kind)
    \/ SetIterNext

SpecSets == InitSets /\ [][SetsNext]_vars

----------------------------------------------------------------------------
\* observers used by the properties

RECURSIVE Subtrees(_)
\* every node of the tree below and including n, Leaf sentinels included
Subtrees(n) ==
    IF n.kind = "Internal" THEN {n} \cup Subtrees(n.l_child) \cup Subtrees(n.r_child)
    ELSE {n}

InternalNodes(n) == {m \in Subtrees(n) : m.kind = "Internal"}

RECURSIVE Values(_)
Values(n) ==
    IF n.kind = "Internal" THEN {n.value} \cup Values(n.l_child) \cup Values(n.r_child)
    ELSE {}

RECURSIVE NodeCount(_)
\* number of Internal nodes
NodeCount(n) ==
    IF n.kind = "Internal" THEN 1 + NodeCount(n.l_child) + NodeCount(n.r_child)
    ELSE 0

RECURSIVE PathBlackCounts(_)
\* the numbers of Black nodes met on the downward paths from n to its leaves
PathBlackCounts(n) ==
    LET own == IF n.colour = Black THEN 1 ELSE 0
    IN  IF n.kind = "Internal"
        THEN {own + c : c \in PathBlackCounts(n.l_child) \cup PathBlackCounts(n.r_child)}
        ELSE {own}

\* s with its first element equal to v taken out
RECURSIVE SeqWithout(_, _)
SeqWithout(s, v) ==
    IF s = <<>> THEN <<>>
    ELSE IF Head(s) = v THEN Tail(s)
    ELSE <<Head(s)>> \o SeqWithout(Tail(s), v)

----------------------------------------------------------------------------
\* C1: after every mutating operation returns, every downward path from a
\* node to a descendant leaf passes through the same number of Black nodes.
C1_BlackHeightConsistent ==
    ~panicked => \A n \in Subtrees(root) : Cardinality(PathBlackCounts(n)) = 1

\* C2: after every mutating operation returns, no Red node has a Red child.
C2_NoRedRed ==
    ~panicked =>
        \A n \in InternalNodes(root) :
            n.colour = Red => (n.l_child.colour # Red /\ n.r_child.colour # Red)

\* C3: after every operation returns, every Internal node's value is
\* strictly greater than every value of its left subtree and strictly less
\* than every value of its right subtree.
C3_BSTOrder ==
    ~panicked =>
        \A n \in InternalNodes(root) :
            /\ \A v \in Values(n.l_child) : ElemLt(v, n.value)
            /\ \A v \in Values(n.r_child) : ElemGt(v, n.value)

\* C3 witness: a removal has returned, leaving a root with two Internal
\* children.
C3_Witness ==
    /\ ~panicked
    /\ op.name \in {"take", "remove", "pop", "pop_back"}
    /\ returned \notin {None, Bool(FALSE)}
    /\ root.kind = "Internal"
    /\ root.l_child.kind = "Internal"
    /\ root.r_child.kind = "Internal"

\* C4: after every mutating operation returns, the root, if Internal, is
\* Black.
C4_RootBlack ==
    ~panicked => (root.kind = "Internal" => root.colour = Black)

\* C5: once an operation has returned, no node and no Leaf sentinel is
\* DoubleBlack and every Leaf sentinel is Black.
C5_NoDoubleBlack ==
    ~panicked =>
        \A n \in Subtrees(root) :
            /\ n.colour # DBlack
            /\ n.kind = "Leaf" => n.colour = Black

\* C6: no public operation on a tree built through public operations
\* panics.
C6_NeverPanics == ~panicked

\* C7: len() equals the number of Internal nodes, which equals the length of
\* ordered(); is_empty() is true exactly when that number is 0.
C7_LenCountsNodes ==
    ~panicked =>
        /\ len = NodeCount(root)
        /\ len = Len(ordered)
        /\ is_empty <=> (NodeCount(root) = 0)

\* C7 witness: a removal and an insertion have each returned, leaving a
\* non-empty tree.
C7_Witness ==
    /\ ~panicked
    /\ op.name \in {"take", "pop"}
    /\ returned # None
    /\ NodeCount(root) >= 2

\* C8: under inserts of new keys and removals of present keys the tree
\* agrees with the reference set after every operation: contains(k) exactly
\* for the reference's keys, get(k) gives the stored element, len() is the
\* reference's size.
C8_AgreesWithReference ==
    /\ ~panicked
    /\ \A k \in Keys :
        /\ contains(k) <=> k \in in_q
        /\ k \in in_q => Node_get(root, k) = Some(k)
    /\ len = Cardinality(in_q)

\* C9: take(&k) / remove(&k) of a contained key k returns Some(k) / true;
\* afterwards k is not contained, len() is one less and ordered() is the
\* previous ordered() without k.
C9_TakeContained ==
    [][(/\ op'.name \in {"take", "remove"}
        /\ ~panicked
        /\ contains(op'.arg))
       => (/\ ~panicked'
           /\ returned' = (IF op'.name = "take" THEN Some(op'.arg) ELSE Bool(TRUE))
           /\ Node_get(root', op'.arg) = None
           /\ contained' = contained - 1
           /\ ordered_insertion(root') = SeqWithout(ordered, op'.arg))]_vars

\* C10: take/remove of a key that is not contained returns None/false
\* without panicking and leaves structure, colours, len() and ordered()
\* unchanged.
C10_TakeAbsentIsNoOp ==
    [][(/\ op'.name \in {"take", "remove"}
        /\ ~panicked
        /\ ~contains(op'.arg))
       => (/\ ~panicked'
           /\ returned' = (IF op'.name = "take" THEN None ELSE Bool(FALSE))
           /\ root' = root
           /\ contained' = contained
           /\ ordered_insertion(root') = ordered)]_vars

\* C10 witness: take of an absent key has returned None on a tree that holds
\* other keys.
C10_Witness ==
    /\ ~panicked
    /\ op.name = "take"
    /\ returned = None
    /\ ~contains(op.arg)
    /\ NodeCount(root) >= 3

\* C11: insert(v) returns true exactly when no element equal to v was
\* contained before the call; len() grows by one when it returns true and is
\* unchanged when it returns false; contains(&v) is true afterwards.
C11_InsertContract ==
    [][(/\ op'.name = "insert"
        /\ ~panicked)
       => (/\ ~panicked'
           /\ returned' = Bool(~contains(op'.arg))
           /\ contained' = (IF returned' = Bool(TRUE) THEN contained + 1
                            ELSE contained)
           /\ Node_get(root', op'.arg) # None)]_vars

\* C11 witness: an insert has returned false on a tree of three or more
\* elements, so an earlier insert returned true.
C11_Witness ==
    /\ ~panicked
    /\ op.name = "insert"
    /\ returned = Bool(FALSE)
    /\ contains(op.arg)
    /\ NodeCount(root) >= 3

\* C12: replace(v2) while an element v1 with the same key is stored returns
\* Some(v1), stores v2 and leaves len() unchanged; replace of an absent key
\* returns None, stores the element and increases len() by one.
C12_ReplaceContract ==
    [][(/\ op'.name = "replace"
        /\ ~panicked)
       => (/\ ~panicked'
           /\ returned' = Node_get(root, op'.arg)
           /\ contained' = (IF contains(op'.arg) THEN contained
                            ELSE contained + 1)
           /\ Node_get(root', op'.arg) = Some(op'.arg))]_vars

\* C12 witness: a replace has returned a stored element whose payload
\* differs from the payload of the element given, which is now stored.
C12_Witness ==
    /\ ~panicked
    /\ op.name = "replace"
    /\ returned.kind = "Some"
    /\ MapperKey(returned.val) = MapperKey(op.arg)
    /\ MapperVal(returned.val) # MapperVal(op.arg)
    /\ Node_get(root, op.arg) = Some(op.arg)
    /\ NodeCount(root) >= 3

\* s without its last element
Front(s) == SubSeq(s, 1, Len(s) - 1)

\* C13: on a non-empty tree pop() removes and returns the minimum element
\* and pop_back() the maximum element, len() goes down by one and all other
\* elements stay contained; on an empty tree both return None and len()
\* stays 0.
C13_PopContract ==
    [][(/\ op'.name \in {"pop", "pop_back"}
        /\ ~panicked)
       => (/\ ~panicked'
           /\ IF ordered = <<>>
              THEN /\ returned' = None
                   /\ contained' = 0
                   /\ ordered_insertion(root') = <<>>
              ELSE IF op'.name = "pop"
              THEN /\ returned' = Some(Head(ordered))
                   /\ contained' = contained - 1
                   /\ ordered_insertion(root') = Tail(ordered)
              ELSE /\ returned' = Some(ordered[Len(ordered)])
                   /\ contained' = contained - 1
                   /\ ordered_insertion(root') = Front(ordered))]_vars

\* C13 witness: pop_back has returned the greatest element of a tree that
\* still holds two or more smaller elements.
C13_Witness ==
    /\ ~panicked
    /\ op.name = "pop_back"
    /\ returned.kind = "Some"
    /\ NodeCount(root) >= 2
    /\ \A v \in Values(root) : ElemLt(v, returned.val)

\* least and greatest key of a non-empty set of keys
SetMin(S) == CHOOSE x \in S : \A y \in S : x <= y

SetMax(S) == CHOOSE x \in S : \A y \in S : x >= y

\* C14: after keys are inserted in any order, popping until None yields
\* every contained element exactly once in strictly ascending order
\* (pop_back: strictly descending) and as many elements as len() was: each
\* pop of the loop yields the least (greatest) key not yet yielded, a key
\* greater (less) than the one yielded before, and None exactly when none
\* is left, with len() the number of keys still to come.
C14_PopSorts ==
    [][(op'.name \in {"pop", "pop_back"})
       => (/\ ~panicked'
           /\ contained = Cardinality(in_q)
           /\ contained' = Cardinality(in_q')
           /\ returned' = (IF in_q = {} THEN None
                           ELSE IF op'.name = "pop" THEN Some(SetMin(in_q))
                           ELSE Some(SetMax(in_q)))
           /\ (returned' # None => in_q' = in_q \ {returned'.val})
           /\ (op.name = op'.name /\ returned' # None)
                 => IF op'.name = "pop" THEN ElemLt(returned.val, returned'.val)
                    ELSE ElemGt(returned.val, returned'.val))]_vars

\* C14 witness: the pop_back loop has yielded a key while two or more
\* smaller keys are still to come.
C14_Witness ==
    /\ ~panicked
    /\ op.name = "pop_back"
    /\ returned.kind = "Some"
    /\ Cardinality(in_q) >= 2
    /\ \A k \in in_q : k < returned.val
    /\ NodeCount(root) >= 2

\* the red-black invariants of the tree rooted at n: equal black counts on
\* all paths below every node, no Red node with a Red child, search order,
\* a Black root, no DoubleBlack and Black leaves
RedBlack(n) ==
    /\ \A m \in Subtrees(n) : Cardinality(PathBlackCounts(m)) = 1
    /\ \A m \in InternalNodes(n) :
           /\ m.colour = Red => (m.l_child.colour # Red /\ m.r_child.colour # Red)
           /\ \A v \in Values(m.l_child) : ElemLt(v, m.value)
           /\ \A v \in Values(m.r_child) : ElemGt(v, m.value)
    /\ n.kind = "Internal" => n.colour = Black
    /\ \A m \in Subtrees(n) :
           /\ m.colour # DBlack
           /\ m.kind = "Leaf" => m.colour = Black

\* C15: take(&v) right after an insert(v) that returned true returns v and
\* leaves ordered() and len() as they were before the insert (the state
\* after the insert without v), with all red-black invariants holding
\* afterwards.
C15_InsertThenTake ==
    [][(/\ ~panicked
        /\ op.name = "insert"
        /\ returned = Bool(TRUE)
        /\ op'.name = "take"
        /\ op'.arg = op.arg)
       => (/\ ~panicked'
           /\ returned' = Some(op.arg)
           /\ ordered_insertion(root') = SeqWithout(ordered, op.arg)
           /\ contained' = contained - 1
           /\ RedBlack(root'))]_vars

\* C16: after any sequence of operations ordered() and iter() produce every
\* contained element exactly once in strictly ascending order, and the empty
\* sequence for an empty tree.
C16_OrderedAscending ==
    ~panicked =>
        /\ \A i \in 1 .. (Len(ordered) - 1) : ElemLt(ordered[i], ordered[i + 1])
        /\ {ordered[i] : i \in 1 .. Len(ordered)} = {k \in Keys : contains(k)}
        /\ {ordered[i] : i \in 1 .. Len(ordered)} = Values(root)
        /\ Len(ordered) = len
        /\ Iter_collect(iter) = ordered
        /\ is_empty => ordered = <<>>

\* C16 witness: a removal has returned and left three or more elements, the
\* root having a left subtree.
C16_Witness ==
    /\ ~panicked
    /\ op.name \in {"take", "remove", "pop_back"}
    /\ returned \notin {None, Bool(FALSE)}
    /\ Len(ordered) >= 3
    /\ root.l_child.kind = "Internal"

\* C17: peek() returns the minimum and peek_back() the maximum element of a
\* non-empty tree, the element pop() / pop_back() would return next, and
\* None on an empty tree; neither changes the tree or len().
C17_PeekContract ==
    [][(/\ op'.name \in {"peek", "peek_back"}
        /\ ~panicked)
       => (/\ ~panicked'
           /\ root' = root
           /\ contained' = contained
           /\ returned' = (IF ordered = <<>> THEN None
                           ELSE IF op'.name = "peek" THEN Some(Head(ordered))
                           ELSE Some(ordered[Len(ordered)]))
           /\ returned' = Node_pop(root, op'.name = "peek_back").ret)]_vars

\* C17 witness: peek_back has returned an element that is not the root's,
\* on a tree of three or more elements.
C17_Witness ==
    /\ ~panicked
    /\ op.name = "peek_back"
    /\ returned.kind = "Some"
    /\ root.kind = "Internal"
    /\ returned.val # root.value
    /\ NodeCount(root) >= 3

RECURSIVE KeyTree(_)
\* the tree with every element replaced by its key
KeyTree(n) ==
    IF n.kind = "Internal"
    THEN Internal(MapperKey(n.value), n.colour, KeyTree(n.l_child), KeyTree(n.r_child))
    ELSE n

\* 65B(50R(10B, 60B(-, 62R)), 80B(70R, -))
TreeAfterRemoving90 ==
    Internal(65, Black,
        Internal(50, Red,
            Internal(10, Black, Leaf(Black), Leaf(Black)),
            Internal(60, Black, Leaf(Black),
                Internal(62, Red, Leaf(Black), Leaf(Black)))),
        Internal(80, Black,
            Internal(70, Red, Leaf(Black), Leaf(Black)),
            Leaf(Black)))

\* 50B(10B, 62R(60B, 65B))
TreeAfterRemoving70 ==
    Internal(50, Black,
        Internal(10, Black, Leaf(Black), Leaf(Black)),
        Internal(62, Red,
            Internal(60, Black, Leaf(Black), Leaf(Black)),
            Internal(65, Black, Leaf(Black), Leaf(Black))))

\* C18: inserting 65, 50, 80, 10, 60, 62, 70, 90, 92 and then removing 92,
\* 90, 80 and 70 keeps every red-black invariant after each removal; after
\* removing 90 the tree is 65B(50R(10B, 60B(-, 62R)), 80B(70R, -)) and the
\* final tree is 50B(10B, 62R(60B, 65B)) with in-order sequence
\* 10, 50, 60, 62, 65.
C18_RemovalScenario ==
    /\ ~panicked
    /\ ScriptPos > Len(ScriptInserts) => RedBlack(root)
    /\ ScriptPos = Len(ScriptInserts) + 2 => KeyTree(root) = TreeAfterRemoving90
    /\ ScriptPos = Len(ScriptInserts) + 4 =>
           /\ KeyTree(root) = TreeAfterRemoving70
           /\ ordered_insertion(KeyTree(root)) = <<10, 50, 60, 62, 65>>
           /\ len = 5

\* C18 witness: the fourth removal, of 70, has returned the stored element.
C18_Witness ==
    /\ ~panicked
    /\ ScriptPos = Len(ScriptInserts) + Len(ScriptRemovals)
    /\ op = Call("take", 70)
    /\ returned.kind = "Some"
    /\ MapperKey(returned.val) = 70

RECURSIVE Height(_)
\* number of Internal nodes on the longest path from n to a leaf
Height(n) ==
    IF n.kind = "Internal"
    THEN 1 + (IF Height(n.l_child) >= Height(n.r_child) THEN Height(n.l_child)
              ELSE Height(n.r_child))
    ELSE 0

\* C19: after any sequence of public operations a tree of n elements has
\* height h with n >= 2^ceil(h/2) - 1.
C19_HeightLogarithmic ==
    ~panicked => NodeCount(root) >= 2 ^ ((Height(root) + 1) \div 2) - 1

\* a number of steps that grows with the height of the tree only
StepLimit(n) == (Height(n) + 2) * (Height(n) + 2)

\* C20: every call of insert, remove/take, pop and pop_back on a reachable
\* tree terminates: the recursive descent, the successor search loop,
\* swap_doubles_up and the deletion fixup with its re-entry make finitely
\* many steps (no more than StepLimit) and the call then returns a result.
C20_CallsTerminate ==
    ~panicked =>
        /\ \A k \in Keys :
               /\ insert_op_steps(root, k) <= StepLimit(root)
               /\ ~IsPanic(Node_insert(root, k).node)
        /\ \A k \in Keys :
               /\ remove_op_steps(root, k) <= StepLimit(root)
               /\ ~IsPanic(Node_remove(root, k).node)
        /\ \A back \in BOOLEAN :
               /\ pop_op_steps(root, back) <= StepLimit(root)
               /\ ~IsPanic(Node_pop(root, back).node)

\* C21: in RBMap identity is decided by the key alone: insert(k, v) returns
\* None and increases len() by one when k is absent, returns
\* Some((k, old_v)) and leaves len() unchanged when k is present, and
\* get(&k) returns v afterwards.
C21_MapInsertByKey ==
    [][(/\ op'.name = "replace"
        /\ ~panicked)
       => (/\ ~panicked'
           /\ IF RBMap_get(root, MapperKey(op'.arg)) = None
              THEN /\ RBMap_insert_result(returned') = None
                   /\ contained' = contained + 1
              ELSE /\ RBMap_insert_result(returned')
                        = Some(<<MapperKey(op'.arg),
                                 RBMap_get(root, MapperKey(op'.arg)).val>>)
                   /\ contained' = contained
           /\ RBMap_get(root', MapperKey(op'.arg)) = Some(MapperVal(op'.arg))
           /\ contained' = Cardinality({k \in Keys : RBMap_get(root', k) # None}))]_vars

\* C21 witness: RBMap::insert has replaced the value of a key by a different
\* one in a map of three keys or more.
C21_Witness ==
    /\ ~panicked
    /\ op.name = "replace"
    /\ RBMap_insert_result(returned).kind = "Some"
    /\ RBMap_insert_result(returned).val[2] # MapperVal(op.arg)
    /\ RBMap_get(root, MapperKey(op.arg)) = Some(MapperVal(op.arg))
    /\ contained >= 3
    /\ contained = Cardinality(in_q)

\* a comes before b in the order the queue's comparator stands for: the
\* natural order of the integers, or the reverse of it for r - l
CmpBefore(a, b) == IF cmp = "r - l" THEN a > b ELSE a < b

CmpLeast(S) == CHOOSE x \in S : \A y \in S \ {x} : CmpBefore(x, y)

CmpGreatest(S) == CHOOSE x \in S : \A y \in S \ {x} : CmpBefore(y, x)

\* C22: an RBQueue keeps its elements ordered by its comparator: after
\* every call ordered() is ascending under cmp, peek() / pop() give the
\* cmp-least and peek_back() / pop_back() the cmp-greatest element, and
\* insert of an element cmp reports Equal to a stored one returns false and
\* leaves len() as it is.
C22_QueueOrderedByCmp ==
    [][(~panicked)
       => (/\ ~panicked'
           /\ \A i \in 1 .. (Len(ordered_insertion(root')) - 1) :
                  CmpBefore(ordered_insertion(root')[i],
                            ordered_insertion(root')[i + 1])
           /\ op'.name = "insert" =>
                  /\ returned' = Bool(op'.arg \notin Values(root))
                  /\ contained' = Cardinality(Values(root) \cup {op'.arg})
                  /\ Values(root') = Values(root) \cup {op'.arg}
           /\ op'.name \in {"pop", "peek"} =>
                  returned' = (IF Values(root) = {} THEN None
                               ELSE Some(CmpLeast(Values(root))))
           /\ op'.name \in {"pop_back", "peek_back"} =>
                  returned' = (IF Values(root) = {} THEN None
                               ELSE Some(CmpGreatest(Values(root))))
           /\ op'.name \in {"pop", "pop_back"} /\ returned' # None =>
                  /\ Values(root') = Values(root) \ {returned'.val}
                  /\ contained' = contained - 1)]_vars

\* C22 witness: a queue ordered by r - l has popped its greatest number
\* from the front while two or more smaller ones are left.
C22_Witness ==
    /\ ~panicked
    /\ cmp = "r - l"
    /\ op.name = "pop"
    /\ returned.kind = "Some"
    /\ Cardinality(Values(root)) >= 2
    /\ \A v \in Values(root) : v < returned.val

\* the integer the comparator |l, r| (r - l) returns
CCmpValue(l, r) == r - l

\* C23: in a queue made with rbqueue_c_new!(cmp), for every integer c that
\* cmp(l, r) returns, l is placed before r when c < 0, l and r are the same
\* key when c = 0 and l is placed after r when c > 0: an insert finds an
\* equal key exactly when cmp returns 0 for a stored element, and in
\* ordered() every element stands before those cmp puts it before.
C23_CComparatorSign ==
    [][(/\ ~panicked
        /\ op'.name = "insert")
       => (/\ ~panicked'
           /\ returned' = Bool(\A l \in Values(root) : CCmpValue(l, op'.arg) # 0)
           /\ Values(root') = Values(root) \cup {op'.arg}
           /\ \A i, j \in 1 .. Len(ordered_insertion(root')) :
                  i < j => CCmpValue(ordered_insertion(root')[i],
                                     ordered_insertion(root')[j]) < 0)]_vars

\* what a set iterator of the given kind over self and other has to yield
SetExpected(kind) ==
    Ascending(CASE kind = "Difference" -> Values(root) \ Values(other)
                [] kind = "Intersection" -> Values(root) \cap Values(other)
                [] kind = "SymmetricDifference" ->
                       (Values(root) \ Values(other)) \cup (Values(other) \ Values(root))
                [] kind = "Union" -> Values(root) \cup Values(other)
                [] OTHER -> {})

\* what a call of next() has to do on an iterator that has to yield
\* `expected` in all: hand out the item following those handed out so far,
\* and None when, and only when, there is none left
NextYields(expected) ==
    /\ Len(collected') <= Len(expected)
    /\ collected' = SubSeq(expected, 1, Len(collected'))
    /\ (returned' = None) <=> (Len(collected) = Len(expected))
    /\ returned' # None => /\ Len(collected') = Len(collected) + 1
                           /\ returned' = Some(expected[Len(collected')])

\* C24: a.difference(&b) yields exactly the elements of a that are not in b
\* and a.intersection(&b) exactly the elements contained in both, each once
\* and in ascending order, and next() keeps returning None once it has
\* returned None
C24_DifferenceIntersection ==
    [][(/\ op'.name = "next"
        /\ set_iter.kind \in {"Difference", "Intersection"})
       => NextYields(SetExpected(set_iter.kind))]_vars

C24_Witness ==
    /\ op.name = "next"
    /\ returned = None
    /\ set_iter.kind = "Difference"
    /\ Len(collected) >= 2
    /\ Values(root) \cap Values(other) # {}
    /\ Values(other) \ Values(root) # {}

\* C25: a.union(&b) yields every element contained in at least one of the
\* trees and a.symmetric_difference(&b) every element contained in exactly
\* one, each once and in ascending order, and collecting the iterator of
\* b and a gives the same sequence as collecting the one of a and b
C25_UnionSymmetricDifference ==
    [][(/\ op'.name = "next"
        /\ set_iter.kind \in {"Union", "SymmetricDifference"})
       => /\ NextYields(SetExpected(set_iter.kind))
          /\ returned' = None
                 => collected' = SetIter_collect(set_iter_new(set_iter.kind, other, root))]_vars

C25_Witness ==
    /\ op.name = "next"
    /\ returned = None
    /\ set_iter.kind = "Union"
    /\ Len(collected) >= 3
    /\ Values(root) \cap Values(other) # {}
    /\ Values(root) \ Values(other) # {}
    /\ Values(other) \ Values(root) # {}
    /\ SetMin(Values(other)) < SetMin(Values(root))

\* C26: on every reachable non-empty tree pop() leaves the tree, structure
\* and colours, that take(&min) leaves on the same tree, and pop_back() the
\* tree that take(&max) leaves
C26_PopAsTake ==
    [][(/\ ~panicked
        /\ ~is_leaf(root)
        /\ op'.name \in {"pop", "pop_back"})
       => root' = Node_remove(root, IF op'.name = "pop" THEN SetMin(Values(root))
                                    ELSE SetMax(Values(root))).node]_vars

\* the fixup was run at the node holding v
FixupRunAt(sites, v) == \E site \in sites : site.value = v

\* C27: when a removal leaves a double-black position the fixup is run at
\* the parent of that position, and at the parent of every node whose fixup
\* reported that the deficiency persists, up to the root; the position may
\* be the matched node's own or the vacated successor slot below it
C27_FixupAtEveryAncestor ==
    [][(/\ ~panicked
        /\ op'.name \in {"take", "remove"})
       => \A i \in 1 .. Len(deficient_path(root, op'.arg, <<>>)) :
              \/ /\ i = 1
                 /\ FixupRunAt(remove_op_sites(root, op'.arg),
                               deficient_path(root, op'.arg, <<>>)[1])
              \/ /\ i > 1
                 /\ (\E site \in remove_op_sites(root, op'.arg) :
                         /\ site.value = deficient_path(root, op'.arg, <<>>)[i - 1]
                         /\ site.doubled)
                    => FixupRunAt(remove_op_sites(root, op'.arg),
                                  deficient_path(root, op'.arg, <<>>)[i])]_vars

\* The calls of the deletion fixup made by the last operation, read by the
\* side the double-black child is on.

\* `right` of deletion_switcheroo: the side of the sibling
SiblingSide(c) == ~is_double_black(get_right(c.self))

Sibling(c) == child(c.self, SiblingSide(c))

\* the sibling's child on the side of the double-black child
NearNephew(c) == child(Sibling(c), ~SiblingSide(c))

\* the sibling's child on the side away from the double-black child
FarNephew(c) == child(Sibling(c), SiblingSide(c))

\* calls on a node with a double-black child and an Internal sibling
DeficientCalls ==
    {c \in fixups : /\ c.self.kind = "Internal"
                    /\ is_double_black(child(c.self, ~SiblingSide(c)))
                    /\ Sibling(c).kind = "Internal"}

BlackSiblingCalls == {c \in DeficientCalls : is_black(Sibling(c))}

RedSiblingCalls == {c \in DeficientCalls : Sibling(c).colour = Red}

\* the near nephew has become the local root, between the old local root
\* and the sibling
DoubleRotation(c) ==
    /\ NearNephew(c).kind = "Internal"
    /\ c.fix.node.kind = "Internal"
    /\ c.fix.node.value = NearNephew(c).value
    /\ child(c.fix.node, ~SiblingSide(c)).kind = "Internal"
    /\ child(c.fix.node, ~SiblingSide(c)).value = c.self.value
    /\ child(c.fix.node, SiblingSide(c)).kind = "Internal"
    /\ child(c.fix.node, SiblingSide(c)).value = Sibling(c).value

\* the sibling has become the local root, the old local root its child on
\* the side of the deficiency and the far nephew its other child
SingleRotation(c) ==
    /\ c.fix.node.kind = "Internal"
    /\ c.fix.node.value = Sibling(c).value
    /\ child(c.fix.node, ~SiblingSide(c)).kind = "Internal"
    /\ child(c.fix.node, ~SiblingSide(c)).value = c.self.value
    /\ child(c.fix.node, SiblingSide(c)).kind = FarNephew(c).kind
    /\ FarNephew(c).kind = "Internal"
           => child(c.fix.node, SiblingSide(c)).value = FarNephew(c).value

\* C28: in the fixup at a node with a double-black child and a Black sibling,
\* a double (inner) rotation is performed when only the sibling's child on
\* the far side is Red, a single (outer) rotation when only the one on the
\* near side is Red
C28_RotationBySide ==
    \A c \in BlackSiblingCalls :
        /\ (FarNephew(c).colour = Red /\ NearNephew(c).colour # Red) => DoubleRotation(c)
        /\ (NearNephew(c).colour = Red /\ FarNephew(c).colour # Red) => SingleRotation(c)

\* C28 as the code has it: the double (inner) rotation is performed when the
\* sibling's child on the near side is Red, the single (outer) rotation when
\* that child is Black and the one on the far side is Red
C28_RotationBySideAmended ==
    \A c \in BlackSiblingCalls :
        /\ NearNephew(c).colour = Red => DoubleRotation(c)
        /\ (FarNephew(c).colour = Red /\ NearNephew(c).colour = Black)
               => SingleRotation(c)

C28_Witness ==
    /\ ~panicked
    /\ \E c \in BlackSiblingCalls :
           /\ NearNephew(c).colour = Red
           /\ FarNephew(c).colour # Red
           /\ c.self.value # root.value

\* C29: in the fixup at a node with a double-black child whose sibling is
\* Black with two Black children, the sibling becomes Red and the
\* double-black child Black; a Red node becomes Black and the fixup reports
\* the deficiency resolved, a Black node becomes DoubleBlack and the fixup
\* reports that it propagates
C29_RecolourCase ==
    \A c \in BlackSiblingCalls :
        (is_black(NearNephew(c)) /\ is_black(FarNephew(c)))
        => /\ c.fix.node.kind = "Internal"
           /\ c.fix.node.value = c.self.value
           /\ child(c.fix.node, SiblingSide(c)) = red(Sibling(c))
           /\ child(c.fix.node, ~SiblingSide(c))
                  = black(child(c.self, ~SiblingSide(c)))
           /\ c.self.colour = Red => (is_black(c.fix.node) /\ ~c.fix.doubled)
           /\ is_black(c.self) => (is_double_black(c.fix.node) /\ c.fix.doubled)

C29_Witness ==
    /\ ~panicked
    /\ \E c \in BlackSiblingCalls :
           /\ is_black(NearNephew(c))
           /\ is_black(FarNephew(c))
           /\ c.self.colour = Red

\* C30: with a Red sibling the fixup makes the sibling the local root,
\* colours it Black and the old local root Red, and runs the fixup at the
\* old local root, whose sibling is then Black; that fixup resolves the
\* deficiency, and the call does not report a double black that propagates
C30_RedSiblingResolves ==
    \A c \in RedSiblingCalls :
        /\ ~IsPanic(c.fix.node)
        /\ ~c.fix.doubled
        /\ c.fix.node.kind = "Internal"
        /\ c.fix.node.value = Sibling(c).value
        /\ is_black(c.fix.node)
        /\ child(c.fix.node, SiblingSide(c)) = FarNephew(c)
        /\ \E n \in fixups :
               /\ n.self.kind = "Internal"
               /\ n.self.value = c.self.value
               /\ n.self.colour = Red
               /\ child(n.self, ~SiblingSide(c)) = child(c.self, ~SiblingSide(c))
               /\ child(n.self, SiblingSide(c)) = NearNephew(c)
               /\ is_black(NearNephew(c))
               /\ ~n.fix.doubled
               /\ child(c.fix.node, ~SiblingSide(c)) = n.fix.node

C30_Witness ==
    /\ ~panicked
    /\ RedSiblingCalls # {}

RECURSIVE PathBlackWeights(_)
\* the black counts of the downward paths from n to its leaves, a
\* DoubleBlack node counting for two Black ones
PathBlackWeights(n) ==
    IF n.kind = "Internal"
    THEN {(IF n.colour = Black THEN 1 ELSE IF n.colour = DBlack THEN 2 ELSE 0) + w :
              w \in PathBlackWeights(n.l_child) \cup PathBlackWeights(n.r_child)}
    ELSE {IF n.colour = Black THEN 1 ELSE IF n.colour = DBlack THEN 2 ELSE 0}

\* C31: in either rotation case of the deletion fixup (Black sibling with at
\* least one Red child) the deficiency is resolved without propagating: no
\* node of the local subtree is DoubleBlack afterwards, the new local root
\* has the colour of the old one, both its children are Black and the paths
\* through the subtree have the black counts they had before the deletion
C31_RotationResolves ==
    \A c \in BlackSiblingCalls :
        (NearNephew(c).colour = Red \/ FarNephew(c).colour = Red)
        => /\ c.fix.node.kind = "Internal"
           /\ ~c.fix.doubled
           /\ \A m \in Subtrees(c.fix.node) : m.colour # DBlack
           /\ c.fix.node.colour = c.self.colour
           /\ c.fix.node.l_child.colour = Black
           /\ c.fix.node.r_child.colour = Black
           /\ PathBlackWeights(c.fix.node) = PathBlackWeights(c.self)

RECURSIVE MatchedReplaced(_, _, _)
\* n with the node remove_op(val) matches replaced by the subtree new and
\* nothing else touched
MatchedReplaced(n, val, new) ==
    IF n.kind # "Internal" THEN n
    ELSE IF ElemEq(val, n.value) THEN new
    ELSE with_child(n, ~ElemLt(val, n.value),
                    MatchedReplaced(child(n, ~ElemLt(val, n.value)), val, new))

\* the only non-leaf child of n, a Leaf if it has none
OnlyChild(n) == IF is_leaf(n.r_child) THEN n.l_child ELSE n.r_child

\* C32: removing a node with at most one non-leaf child replaces it in
\* place by that child (or a Leaf): a Red node goes without any recolouring
\* or rotation anywhere and the result is Removed, a Black node with a Red
\* child is replaced by the child recoloured Black without a double black,
\* and Doubled results only from a Black node whose replacement is not Red
C32_UnlinkInPlace ==
    [][(/\ ~panicked
        /\ op'.name \in {"take", "remove"}
        /\ MatchedNode(root, op'.arg).kind = "Internal"
        /\ \/ is_leaf(MatchedNode(root, op'.arg).l_child)
           \/ is_leaf(MatchedNode(root, op'.arg).r_child))
       => \E M \in {MatchedNode(root, op'.arg)} :
          \E sw \in {swap_innermost_descendant(M)} :
              /\ M.colour = Red
                     => /\ sw.node = OnlyChild(M)
                        /\ ~sw.doubled
                        /\ root' = MatchedReplaced(root, op'.arg, OnlyChild(M))
              /\ (M.colour = Black /\ OnlyChild(M).colour = Red)
                     => /\ sw.node = black(OnlyChild(M))
                        /\ ~sw.doubled
              /\ sw.doubled <=> (M.colour = Black /\ OnlyChild(M).colour # Red)
              /\ sw.doubled => sw.node = double_black(OnlyChild(M))
              /\ sw.val = M.value]_vars

RECURSIVE Extreme(_, _)
\* the node of the subtree n that lies furthest on side `right`
Extreme(n, right) ==
    IF is_leaf(child(n, right)) THEN n ELSE Extreme(child(n, right), right)

RECURSIVE DropExtreme(_, _)
\* n with that node taken out and its other child put in its place
DropExtreme(n, right) ==
    IF is_leaf(child(n, right)) THEN child(n, ~right)
    ELSE with_child(n, right, DropExtreme(child(n, right), right))

RECURSIVE Uncoloured(_)
\* the shape and the values of n
Uncoloured(n) ==
    IF n.kind = "Internal"
    THEN <<n.value, Uncoloured(n.l_child), Uncoloured(n.r_child)>>
    ELSE <<>>

\* the matched node after the swap sw took its value from the subtree on
\* side `right`: same position and colour, the value of the node of that
\* subtree nearest in order, that node unlinked and the other side untouched
SwappedWith(sw, right) ==
    /\ sw.val = matched.value
    /\ sw.node.kind = "Internal"
    /\ sw.node.colour = matched.colour
    /\ sw.node.value = Extreme(child(matched, right), ~right).value
    /\ child(sw.node, ~right) = child(matched, ~right)
    /\ Uncoloured(child(sw.node, right))
           = Uncoloured(DropExtreme(child(matched, right), ~right))

\* C33: a matched node with a non-leaf right child keeps its position and
\* colour and takes the value of its in-order successor, whose node is the
\* one unlinked, and the value stored before is returned; the predecessor is
\* used only when the right child is a Leaf
C33_SuccessorSwap ==
    (/\ op.name \in {"take", "remove"}
     /\ matched.kind = "Internal"
     /\ ~is_leaf(matched.l_child) \/ ~is_leaf(matched.r_child))
    => /\ SwappedWith(swap_innermost_descendant(matched), ~is_leaf(matched.r_child))
       /\ ~panicked
       /\ op.name = "take" => returned = Some(matched.value)

RECURSIVE InOrder(_)
\* the values of n from left to right
InOrder(n) ==
    IF n.kind = "Internal"
    THEN InOrder(n.l_child) \o <<n.value>> \o InOrder(n.r_child)
    ELSE <<>>

\* the steps of the last insert that found a Red child with a Red child
InvalidSteps ==
    {i \in DOMAIN inserting : inserting[i].sub \in {"InvalidLeft", "InvalidRight"}}

\* the Red child, its Red child and the uncle at such a step
RedChild(st) == child(st.self, st.right)

RedGrandchild(st) == child(RedChild(st), st.sub = "InvalidRight")

Uncle(st) == child(st.self, ~st.right)

\* the steps among them at a Black node whose uncle is Black or a Leaf
RotationSteps ==
    {i \in InvalidSteps :
        /\ inserting[i].self.colour = Black
        /\ is_leaf(Uncle(inserting[i])) \/ Uncle(inserting[i]).colour = Black}

\* the node n is a local root made by a rotation at st: it holds the value
\* `top`, is Black, has the former local root as its Red child on the side
\* away from the insertion with the uncle still below it, holds the values
\* in the order they had, and reports no violation
Rotated(st, top) ==
    /\ st.out.res = "Success"
    /\ st.out.node.kind = "Internal"
    /\ st.out.node.value = top.value
    /\ st.out.node.colour = Black
    /\ child(st.out.node, ~st.right).kind = "Internal"
    /\ child(st.out.node, ~st.right).value = st.self.value
    /\ child(st.out.node, ~st.right).colour = Red
    /\ child(child(st.out.node, ~st.right), ~st.right) = Uncle(st)
    /\ child(st.out.node, st.right).kind = "Internal"
    /\ child(st.out.node, st.right).colour = Red
    /\ InOrder(st.out.node) = InOrder(st.self)

\* the tree of 2, 3, 1 with node 3 forced Black
InsertionCase1Left ==
    child_black(Node_insert(Node_insert(Node_insert(Leaf(Black), 2).node, 3).node,
                            1).node, TRUE)

\* C34: at a Black node whose Red child has a Red child and whose uncle is
\* Black or a Leaf, the Red child becomes the local root if the Red
\* grandchild is on its outer side and the Red grandchild does if it is on
\* the inner side; the new local root is Black, the former one its Red child
\* on the other side, and no violation is passed up. Inserting 0 into 2, 3, 1
\* with 3 forced Black gives 1 Black over 0 Red and 2 Red, 3 Black right of 2
C34_RotationCase ==
    /\ \A i \in RotationSteps :
           IF (inserting[i].sub = "InvalidRight") = inserting[i].right
           THEN Rotated(inserting[i], RedChild(inserting[i]))
           ELSE Rotated(inserting[i], RedGrandchild(inserting[i]))
    /\ cmp = "PartialOrd"
           => Node_insert(InsertionCase1Left, 0).node
                  = [kind |-> "Internal", colour |-> Black, value |-> 1,
                     l_child |-> NodeNew(0),
                     r_child |-> [kind |-> "Internal", colour |-> Red, value |-> 2,
                                  l_child |-> Leaf(Black),
                                  r_child |-> black(NodeNew(3))]]

\* the steps among them at a Black node whose uncle is Red
RecolourSteps ==
    {i \in InvalidSteps :
        /\ inserting[i].self.colour = Black
        /\ Uncle(inserting[i]).colour = Red}

\* C35: at a Black node whose Red child has a Red child and whose uncle is
\* Red nothing is rotated: the node becomes Red and both its children Black;
\* a violation is passed up only if the node's parent is Red, and a root is
\* coloured Black in the end. Inserting 2, 3, 1, 0 gives 2 Black over 1 and 3
\* Black, and 0 Red
C35_RecolourCase ==
    /\ \A i \in RecolourSteps :
           /\ inserting[i].out.res = "Recoloured"
           /\ inserting[i].out.node
                  = [inserting[i].self EXCEPT
                         !.colour = Red,
                         !.l_child = black(inserting[i].self.l_child),
                         !.r_child = black(inserting[i].self.r_child)]
           /\ i > 1 => IF inserting[i - 1].self.colour = Red
                       THEN inserting[i - 1].out.res
                                = (IF inserting[i - 1].right THEN "InvalidRight"
                                   ELSE "InvalidLeft")
                       ELSE inserting[i - 1].out.res = "Success"
           /\ i = 1 => root = black(inserting[i].out.node)
    /\ cmp = "PartialOrd"
           => Node_insert(Node_insert(Node_insert(Node_insert(
                  Leaf(Black), 2).node, 3).node, 1).node, 0).node
                  = [kind |-> "Internal", colour |-> Black, value |-> 2,
                     l_child |-> [black(NodeNew(1)) EXCEPT !.l_child = NodeNew(0)],
                     r_child |-> black(NodeNew(3))]

\* the colour each value of n is stored with
Colours(n) == {<<m.value, m.colour>> : m \in InternalNodes(n)}

\* the child the rotation is asked to lift, and that child's inner child
ChosenChild(n, arg) == child(n, arg = 1)

InnerGrandchild(n, arg) == child(ChosenChild(n, arg), arg # 1)

\* the rotation can be applied to n
Rotatable(n, name, arg) ==
    /\ n.kind = "Internal"
    /\ ChosenChild(n, arg).kind = "Internal"
    /\ name = "inner_switcheroo" => InnerGrandchild(n, arg).kind = "Internal"

\* the subtrees that hang off the nodes the rotation moves
Hanging(n, name, arg) ==
    IF name = "outer_switcheroo"
    THEN {child(n, arg # 1), child(ChosenChild(n, arg), arg = 1),
          InnerGrandchild(n, arg)}
    ELSE {child(n, arg # 1), child(ChosenChild(n, arg), arg = 1),
          InnerGrandchild(n, arg).l_child, InnerGrandchild(n, arg).r_child}

\* C36: outer_switcheroo and inner_switcheroo, on a node whose chosen child
\* (and for the inner one that child's inner child) is Internal, keep the
\* values in order, lose and duplicate no node, hang every subtree back
\* as it was and change no colour
C36_RotationsPreserve ==
    [][(/\ op'.name \in {"outer_switcheroo", "inner_switcheroo"}
        /\ Rotatable(root, op'.name, op'.arg))
       => /\ ~panicked'
          /\ InOrder(root') = InOrder(root)
          /\ Colours(root') = Colours(root)
          /\ Hanging(root, op'.name, op'.arg) \subseteq Subtrees(root')]_vars

C36_Witness ==
    /\ op.name = "inner_switcheroo"
    /\ ~panicked
    /\ ~is_leaf(root.l_child)
    /\ ~is_leaf(root.r_child)
    /\ Cardinality(Colours(root)) = MaxRotationKey

RECURSIVE KeyShape(_)
\* the shape of n with the colour and the key of every node
KeyShape(n) ==
    IF n.kind = "Internal"
    THEN <<MapperKey(n.value), n.colour, KeyShape(n.l_child), KeyShape(n.r_child)>>
    ELSE <<n.kind, n.colour>>

\* the elements of n whose key is not that of e
ValuesBut(n, e) == {x \in Values(n) : MapperKey(x) # MapperKey(e)}

\* C37: insert or replace of an element equal to a stored one changes only
\* the value stored in that node: the shape of the tree, the colour of
\* every node and len() stay as they were
C37_EqualKeyFrame ==
    [][(/\ ~panicked
        /\ op'.name \in {"insert", "replace"}
        /\ MatchedNode(root, op'.arg).kind = "Internal")
       => /\ ~panicked'
          /\ KeyShape(root') = KeyShape(root)
          /\ ValuesBut(root', op'.arg) = ValuesBut(root, op'.arg)
          /\ contained' = contained]_vars

\* C38: once remove, take, pop or pop_back has removed the last element,
\* the tree is as RBTree::new() makes it: the root is Leaf(Black) and len()
\* is 0
C38_EmptyAsNew ==
    (/\ ~panicked
     /\ op.name \in {"remove", "take", "pop", "pop_back"}
     /\ returned.kind \in {"Some", "true"}
     /\ root.kind # "Internal")
    => /\ root = Leaf(Black)
       /\ len = 0

\* the elements of n equal to e
ValuesEqual(n, e) == {x \in Values(n) : ElemEq(x, e)}

\* C39: RBTree::insert(v) on a tree that stores an element equal to v
\* returns false and stores v in place of that element
C39_InsertOverwrites ==
    [][(/\ ~panicked
        /\ op'.name = "insert"
        /\ MatchedNode(root, op'.arg).kind = "Internal")
       => /\ returned' = Bool(FALSE)
          /\ ValuesEqual(root', op'.arg) = {op'.arg}]_vars

C39_Witness ==
    /\ ~panicked
    /\ op.name = "insert"
    /\ returned = Bool(FALSE)
    /\ MapperVal(op.arg) # 0
    /\ ValuesEqual(root, op.arg) = {op.arg}

====
